---- MODULE Spec2Model ----
(***************************************************************************)
(* Physics / collision core and fixed-step driver of jumper.c.             *)
(*                                                                         *)
(* Doubles are modelled in exact fixed point.  One time tick is 1/480 s    *)
(* (a quarter of PHYS_DT), one velocity unit is 1/1200 world unit per      *)
(* second and one position unit is 1/576000 world unit, so that            *)
(* p += v * dt, every accel * dt product and the 0.001 epsilon are whole   *)
(* numbers.  The only rounding is in vx *= 0.3 and in the 45-degree unit   *)
(* vector (both truncate toward zero).                                     *)
(***************************************************************************)
EXTENDS Integers, Sequences, FiniteSets, TLC

VARIABLES
    map_w, map_h, map_cells, map_rots,   \* the grid
    state_prev, state_curr,              \* Player state_prev, state_curr
    in, kb_r,                            \* Input in; kb[SDL_SCANCODE_R]
    level_complete, accumulator,
    pc, sub,                             \* position in the frame loop; s of line 855
    steps,                               \* fixed steps executed so far
    last,                                \* record of the last resolver / physics_step call
    unsup,                               \* ticks since a collision pass last placed the foot
                                         \* (-1: never, or the player jumped or was respawned)
    since_jump,                          \* a jump succeeded and grounded has stayed 0 since
    ref,                                 \* the state after `steps` fixed steps run one per frame
    render_player,                       \* Player render_player and alpha of lines 858-868
    frame_steps,                         \* fixed steps run by the stepping loop of this frame
    mouse_dx_smooth, mouse_dy_smooth,    \* in tenths of a pixel
    mouse_sensitivity,                   \* in 1/10000 radian per pixel
    invert_mouse_y, invert_mouse_x,
    menu_open, menu_selected, menu_sub,
    load_path,                           \* the file the typed path names
    load_call,                           \* record of the last load_map_json_like call
    height_call,                         \* record of a wedge_height_at_local call
    elapsed                              \* the sum of the values frame_dt has taken

\* the settings and smoothing state of the look mapper
look_vars == <<mouse_dx_smooth, mouse_dy_smooth, mouse_sensitivity, invert_mouse_y,
               invert_mouse_x>>

\* the menu
menu_vars == <<menu_open, menu_selected, menu_sub, load_path>>

\* records kept for the properties of the loader, of the height field and of time
call_vars == <<load_call, height_call, elapsed>>

vars == <<map_w, map_h, map_cells, map_rots, state_prev, state_curr, in, kb_r,
          level_complete, accumulator, pc, sub, steps, last, unsup, since_jump, ref,
          render_player, frame_steps, look_vars, menu_vars, call_vars>>

-----------------------------------------------------------------------------
(* Bounds of the model *)

\* fixed steps executed in one run of the frame loop
MaxSteps == 72

-----------------------------------------------------------------------------
(* Units and program constants *)

\* double PHYS_DT = 1.0 / 120.0 : fixed steps per second
PHYS_HZ == 120
\* ticks per second; PHYS_DT is 4 ticks, one sub-step 2 ticks
TICKS == 4 * PHYS_HZ
\* velocity units per (world unit / second)
VEL == 10 * PHYS_HZ
\* position units per world unit
POS == VEL * TICKS

PHYS_DT == TICKS \div PHYS_HZ
substeps == 2
\* clampd(cur - prev_time, 0.0, 0.25)
MAX_FRAME_DT == TICKS \div 4

CELL_SIZE == POS
PLAYER_RADIUS == (28 * POS) \div 100
PLAYER_HEIGHT == (18 * POS) \div 10
\* the 0.001 added to every snapped foot height
EPSILON == POS \div 1000

TILE_EMPTY == 0
TILE_CUBE == 1
TILE_WEDGE == 2
TILE_END == 3

\* world units / s^2 and world units / s
GRAVITY == 20
WALK_ACCEL == 100
AIR_ACCEL == 60
MAX_WALK_SPEED == 7
JUMP_VELOCITY == 8
FRICTION == 6
\* 0.1 s in ticks
BUNNY_HOP_TIME == TICKS \div 10

\* spawn point (3.5, 2.0, 3.5)
SPAWN_X == (35 * POS) \div 10
SPAWN_Y == 2 * POS
SPAWN_Z == (35 * POS) \div 10

-----------------------------------------------------------------------------
(* helpers *)

clampd(v, a, b) == IF v < a THEN a ELSE IF v > b THEN b ELSE v

\* mutant of approach: the full step is always taken, past the target too
approach_overshoot(cur, target, maxDelta) ==
    LET d == target - cur IN
    IF d > 0 THEN cur + maxDelta
    ELSE IF d < 0 THEN cur - maxDelta
    ELSE target

approach(cur, target, maxDelta) ==
    LET d == target - cur IN
    IF d > maxDelta THEN cur + maxDelta
    ELSE IF d < -maxDelta THEN cur - maxDelta
    ELSE target

fmin(a, b) == IF a < b THEN a ELSE b

\* C double -> truncation toward zero of a quotient
TruncDiv(a, b) == IF a >= 0 THEN a \div b ELSE -((-a) \div b)

\* v * 0.3
Damp(v) == TruncDiv(v * 3, 10)

\* sin and cos of yaw, yaw in eighths of a turn, scaled by 10000
SinCos8 == <<  <<0, 10000>>, <<7071, 7071>>, <<10000, 0>>, <<7071, -7071>>,
               <<0, -10000>>, <<-7071, -7071>>, <<-10000, 0>>, <<-7071, 7071>> >>
sin8(o) == SinCos8[(o % 8) + 1][1]
cos8(o) == SinCos8[(o % 8) + 1][2]

-----------------------------------------------------------------------------
(* the map *)

in_map(x, z) == x >= 0 /\ z >= 0 /\ x < map_w /\ z < map_h

tile_at(x, z) == IF ~in_map(x, z) THEN TILE_CUBE ELSE map_cells[z * map_w + x]

-----------------------------------------------------------------------------
(* collisions *)

\* mutants of land_on_top: the fall is not stopped; the foot is put on the top itself
land_on_top_keep_vy(p, cell_max_y) ==
    [p EXCEPT !.py = cell_max_y + EPSILON, !.grounded = 1]
land_on_top_no_epsilon(p, cell_max_y) ==
    [p EXCEPT !.py = cell_max_y, !.vy = 0, !.grounded = 1]

\* lines 486-488: the foot is put on the cube top
land_on_top(p, cell_max_y) ==
    [p EXCEPT !.py = cell_max_y + EPSILON, !.vy = 0, !.grounded = 1]

\* mutant of resolve_cube: ties between the axes are broken X first, then Y, then Z
resolve_cube_x_first(p, cx, cz) ==
    LET cell_min_x == cx * CELL_SIZE
        cell_max_x == (cx + 1) * CELL_SIZE
        cell_min_z == cz * CELL_SIZE
        cell_max_z == (cz + 1) * CELL_SIZE
        pen_x == fmin(p.px + PLAYER_RADIUS - cell_min_x, cell_max_x - (p.px - PLAYER_RADIUS))
        pen_y == fmin(p.py + PLAYER_HEIGHT, POS - p.py)
        pen_z == fmin(p.pz + PLAYER_RADIUS - cell_min_z, cell_max_z - (p.pz - PLAYER_RADIUS))
    IN
    IF p.px + PLAYER_RADIUS <= cell_min_x \/ p.px - PLAYER_RADIUS >= cell_max_x
       \/ p.py + PLAYER_HEIGHT <= 0 \/ p.py >= POS
       \/ p.pz + PLAYER_RADIUS <= cell_min_z \/ p.pz - PLAYER_RADIUS >= cell_max_z
    THEN p
    ELSE IF pen_x <= pen_y /\ pen_x <= pen_z
    THEN [p EXCEPT !.px = IF 2 * p.px < cell_min_x + cell_max_x
                          THEN p.px - pen_x ELSE p.px + pen_x,
                   !.vx = Damp(p.vx)]
    ELSE IF pen_y <= pen_z
    THEN IF 2 * p.py + PLAYER_HEIGHT > POS
         THEN land_on_top(p, POS)
         ELSE [p EXCEPT !.py = 0 - PLAYER_HEIGHT - EPSILON,
                        !.vy = IF p.vy > 0 THEN 0 ELSE p.vy]
    ELSE [p EXCEPT !.pz = IF 2 * p.pz < cell_min_z + cell_max_z
                          THEN p.pz - pen_z ELSE p.pz + pen_z,
                   !.vz = Damp(p.vz)]

resolve_cube(p, cx, cz) ==
    LET cell_min_x == cx * CELL_SIZE
        cell_max_x == (cx + 1) * CELL_SIZE
        cell_min_y == 0
        cell_max_y == POS
        cell_min_z == cz * CELL_SIZE
        cell_max_z == (cz + 1) * CELL_SIZE
        pmin_x == p.px - PLAYER_RADIUS
        pmax_x == p.px + PLAYER_RADIUS
        pmin_y == p.py
        pmax_y == p.py + PLAYER_HEIGHT
        pmin_z == p.pz - PLAYER_RADIUS
        pmax_z == p.pz + PLAYER_RADIUS
        pen_x == fmin(pmax_x - cell_min_x, cell_max_x - pmin_x)
        pen_y == fmin(pmax_y - cell_min_y, cell_max_y - pmin_y)
        pen_z == fmin(pmax_z - cell_min_z, cell_max_z - pmin_z)
    IN
    IF pmax_x <= cell_min_x \/ pmin_x >= cell_max_x
       \/ pmax_y <= cell_min_y \/ pmin_y >= cell_max_y
       \/ pmax_z <= cell_min_z \/ pmin_z >= cell_max_z
    THEN p
    ELSE IF pen_y <= pen_x /\ pen_y <= pen_z
    THEN \* player_center_y > cell_center_y, both doubled
         IF pmin_y + pmax_y > cell_min_y + cell_max_y
         THEN land_on_top(p, cell_max_y)
         ELSE [p EXCEPT !.py = cell_min_y - PLAYER_HEIGHT - EPSILON,
                        !.vy = IF p.vy > 0 THEN 0 ELSE p.vy]
    ELSE IF pen_x <= pen_z
    THEN [p EXCEPT !.px = IF 2 * p.px < cell_min_x + cell_max_x
                          THEN p.px - pen_x ELSE p.px + pen_x,
                   !.vx = Damp(p.vx)]
    ELSE [p EXCEPT !.pz = IF 2 * p.pz < cell_min_z + cell_max_z
                          THEN p.pz - pen_z ELSE p.pz + pen_z,
                   !.vz = Damp(p.vz)]

\* mutant of wedge_height_at_local: the local coordinates are not clamped
wedge_height_at_local_unclamped(lx0, lz0, rot) ==
    IF rot = 0 THEN lx0
    ELSE IF rot = 1 THEN POS - lx0
    ELSE IF rot = 2 THEN lz0
    ELSE POS - lz0

wedge_height_at_local(lx0, lz0, rot) ==
    LET lx == clampd(lx0, 0, POS)
        lz == clampd(lz0, 0, POS)
    IN IF rot = 0 THEN lx
       ELSE IF rot = 1 THEN POS - lx
       ELSE IF rot = 2 THEN lz
       ELSE POS - lz

\* mutant of resolve_wedge: the footprint test forgets the z axis
resolve_wedge_no_z_test(p, cx, cz, rot) ==
    LET lx == p.px - cx * POS
        lz == p.pz - cz * POS
        surf == wedge_height_at_local(lx, lz, rot)
    IN
    IF lx < -PLAYER_RADIUS \/ lx > POS + PLAYER_RADIUS
    THEN p
    ELSE IF p.py <= surf + EPSILON
    THEN [p EXCEPT !.py = surf + EPSILON,
                   !.vy = IF p.vy < 0 THEN 0 ELSE p.vy,
                   !.grounded = 1]
    ELSE p

\* mutant of resolve_wedge: a snap stops the vertical velocity whatever its sign
resolve_wedge_stop(p, cx, cz, rot) ==
    LET lx == p.px - cx * POS
        lz == p.pz - cz * POS
        surf == wedge_height_at_local(lx, lz, rot)
    IN
    IF lx < -PLAYER_RADIUS \/ lx > POS + PLAYER_RADIUS
       \/ lz < -PLAYER_RADIUS \/ lz > POS + PLAYER_RADIUS
    THEN p
    ELSE IF p.py <= surf + EPSILON
    THEN [p EXCEPT !.py = surf + EPSILON, !.vy = 0, !.grounded = 1]
    ELSE p

\* mutant of resolve_wedge: the foot is snapped to the surface only from below it
resolve_wedge_no_band(p, cx, cz, rot) ==
    LET lx == p.px - cx * POS
        lz == p.pz - cz * POS
        surf == wedge_height_at_local(lx, lz, rot)
    IN
    IF lx < -PLAYER_RADIUS \/ lx > POS + PLAYER_RADIUS
       \/ lz < -PLAYER_RADIUS \/ lz > POS + PLAYER_RADIUS
    THEN p
    ELSE IF p.py < surf
    THEN [p EXCEPT !.py = surf + EPSILON,
                   !.vy = IF p.vy < 0 THEN 0 ELSE p.vy,
                   !.grounded = 1]
    ELSE p

resolve_wedge(p, cx, cz, rot) ==
    LET lx == p.px - cx * POS
        lz == p.pz - cz * POS
        surf == wedge_height_at_local(lx, lz, rot)
    IN
    IF lx < -PLAYER_RADIUS \/ lx > POS + PLAYER_RADIUS
       \/ lz < -PLAYER_RADIUS \/ lz > POS + PLAYER_RADIUS
    THEN p
    ELSE IF p.py <= surf + EPSILON
    THEN [p EXCEPT !.py = surf + EPSILON,
                   !.vy = IF p.vy < 0 THEN 0 ELSE p.vy,
                   !.grounded = 1]
    ELSE p

\* the TILE_END branch of resolve_collisions: 1 when the footprint touches the cell
\* mutant of goal_overlap: the goal counts only below the height of a cube
goal_overlap_low(p, mx, mz) ==
    /\ p.py < POS
    /\ p.px + PLAYER_RADIUS >= mx * POS /\ p.px - PLAYER_RADIUS <= (mx + 1) * POS
    /\ p.pz + PLAYER_RADIUS >= mz * POS /\ p.pz - PLAYER_RADIUS <= (mz + 1) * POS

goal_overlap(p, mx, mz) ==
    /\ p.px + PLAYER_RADIUS >= mx * POS
    /\ p.px - PLAYER_RADIUS <= (mx + 1) * POS
    /\ p.pz + PLAYER_RADIUS >= mz * POS
    /\ p.pz - PLAYER_RADIUS <= (mz + 1) * POS

\* one iteration of the double loop: s is [p, lc], the cell is (mx, mz)
resolve_cell(s, mx, mz) ==
    IF ~in_map(mx, mz) THEN s
    ELSE LET t == tile_at(mx, mz) IN
         IF t = TILE_CUBE THEN [s EXCEPT !.p = resolve_cube(s.p, mx, mz)]
         ELSE IF t = TILE_WEDGE
         THEN [s EXCEPT !.p = resolve_wedge(s.p, mx, mz, map_rots[mz * map_w + mx])]
         ELSE IF t = TILE_END
         THEN [s EXCEPT !.lc = IF goal_overlap(s.p, mx, mz) THEN 1 ELSE s.lc]
         ELSE s

\* mutant of resolve_loop: columns (x offset) outer, rows (z offset) inner
RECURSIVE resolve_loop_columns_outer(_, _, _, _)
resolve_loop_columns_outer(s, cx, cz, i) ==
    IF i = 9 THEN s
    ELSE resolve_loop_columns_outer(
             resolve_cell(s, cx + (i \div 3) - 1, cz + (i % 3) - 1), cx, cz, i + 1)

\* for oz in -1..1, for ox in -1..1 : i counts the nine iterations
RECURSIVE resolve_loop(_, _, _, _)
resolve_loop(s, cx, cz, i) ==
    IF i = 9 THEN s
    ELSE resolve_loop(resolve_cell(s, cx + (i % 3) - 1, cz + (i \div 3) - 1),
                      cx, cz, i + 1)

\* mutant of floor_clamp: the clamp forgets to stop the fall
floor_clamp_keep_vy(p) ==
    IF p.py < 0 THEN [p EXCEPT !.py = 0, !.grounded = 1] ELSE p

floor_clamp(p) ==
    IF p.py < 0 THEN [p EXCEPT !.py = 0, !.vy = 0, !.grounded = 1] ELSE p

\* lines 528-542: the nine cells around (floor(px), floor(pz)); returns [p, lc]
resolve_cells(p, lc) ==
    resolve_loop([p |-> p, lc |-> lc], p.px \div POS, p.pz \div POS, 0)

\* returns [p, lc]
resolve_collisions(p, lc) ==
    LET s == resolve_cells(p, lc) IN [s EXCEPT !.p = floor_clamp(s.p)]

-----------------------------------------------------------------------------
(* physics step *)

\* eighth of a turn of the (move_fwd, move_strafe) vector: forward 0, right 2
move_oct(f, s) ==
    IF f = 1 /\ s = 0 THEN 0 ELSE IF f = 1 /\ s = 1 THEN 1
    ELSE IF f = 0 /\ s = 1 THEN 2 ELSE IF f = -1 /\ s = 1 THEN 3
    ELSE IF f = -1 /\ s = 0 THEN 4 ELSE IF f = -1 /\ s = -1 THEN 5
    ELSE IF f = 0 /\ s = -1 THEN 6 ELSE 7

\* wish_len > 1e-6 (and >= 1e-3): some movement key is down
has_wish(i) == i.move_fwd # 0 \/ i.move_strafe # 0

\* the normalised wish direction, scaled by 10000
wish_x(p, i) == IF has_wish(i) THEN sin8(p.yaw + move_oct(i.move_fwd, i.move_strafe)) ELSE 0
wish_z(p, i) == IF has_wish(i) THEN cos8(p.yaw + move_oct(i.move_fwd, i.move_strafe)) ELSE 0

\* lines 573-584: acceleration toward the target velocity, then friction
\* mutant of accelerate: the sprint factor applies in the air too
accelerate_sprint_in_air(p, i, dt) ==
    LET accel == IF p.grounded = 1 THEN WALK_ACCEL ELSE AIR_ACCEL
        target_speed2 == MAX_WALK_SPEED * (IF i.sprint = 1 THEN 3 ELSE 2)
        target_vx == TruncDiv(wish_x(p, i) * target_speed2 * VEL, 20000)
        target_vz == TruncDiv(wish_z(p, i) * target_speed2 * VEL, 20000)
        maxdv == (accel * VEL * dt) \div TICKS
        vx1 == approach(p.vx, target_vx, maxdv)
        vz1 == approach(p.vz, target_vz, maxdv)
        fr == (FRICTION * VEL * dt) \div TICKS
    IN IF p.grounded = 1 /\ ~has_wish(i)
       THEN [p EXCEPT !.vx = approach(vx1, 0, fr), !.vz = approach(vz1, 0, fr)]
       ELSE [p EXCEPT !.vx = vx1, !.vz = vz1]

accelerate(p, i, dt) ==
    LET accel == IF p.grounded = 1 THEN WALK_ACCEL ELSE AIR_ACCEL
        \* target_speed doubled, so that 1.5 is 3
        target_speed2 == IF p.grounded = 1
                         THEN MAX_WALK_SPEED * (IF i.sprint = 1 THEN 3 ELSE 2)
                         ELSE MAX_WALK_SPEED * 2
        target_vx == TruncDiv(wish_x(p, i) * target_speed2 * VEL, 20000)
        target_vz == TruncDiv(wish_z(p, i) * target_speed2 * VEL, 20000)
        maxdv == (accel * VEL * dt) \div TICKS
        vx1 == approach(p.vx, target_vx, maxdv)
        vz1 == approach(p.vz, target_vz, maxdv)
        fr == (FRICTION * VEL * dt) \div TICKS
    IN IF p.grounded = 1 /\ ~has_wish(i)
       THEN [p EXCEPT !.vx = approach(vx1, 0, fr), !.vz = approach(vz1, 0, fr)]
       ELSE [p EXCEPT !.vx = vx1, !.vz = vz1]

\* lines 586-591
update_timer(p, dt) ==
    IF p.grounded = 1 THEN [p EXCEPT !.time_since_grounded = 0]
    ELSE [p EXCEPT !.time_since_grounded = p.time_since_grounded + dt]

\* line 593
gravity(p, dt) == [p EXCEPT !.vy = p.vy - (GRAVITY * VEL * dt) \div TICKS]

\* the condition of line 594, on the state left by update_timer
jump_ok(p, i) ==
    (p.grounded = 1 \/ p.time_since_grounded < BUNNY_HOP_TIME) /\ i.jump = 1

\* mutant of jump: the timer is cleared instead of set to the window
jump_timer_reset(p, i) ==
    IF jump_ok(p, i)
    THEN [p EXCEPT !.vy = JUMP_VELOCITY * VEL, !.grounded = 0, !.time_since_grounded = 0]
    ELSE p

\* lines 594-598
jump(p, i) ==
    IF jump_ok(p, i)
    THEN [p EXCEPT !.vy = JUMP_VELOCITY * VEL, !.grounded = 0,
                   !.time_since_grounded = BUNNY_HOP_TIME]
    ELSE p

\* lines 600-602; v * dt in position units is v * dt ticks
integrate(p, dt) ==
    [p EXCEPT !.px = p.px + p.vx * dt, !.py = p.py + p.vy * dt, !.pz = p.pz + p.vz * dt]

\* mutant of pre_collide: gravity is applied after the jump test
pre_collide_gravity_last(p, i, dt) ==
    integrate(gravity(jump(update_timer(accelerate(p, i, dt), dt), i), dt), dt)

\* the state handed to resolve_collisions
pre_collide(p, i, dt) ==
    integrate(jump(gravity(update_timer(accelerate(p, i, dt), dt), dt), i), dt)

\* returns [p, lc]
physics_step(p, i, dt, lc) == resolve_collisions(pre_collide(p, i, dt), lc)

-----------------------------------------------------------------------------
(* maps *)

\* rows of tile types, row z first; '.' of the drawings below is TILE_EMPTY
\*   z=0  . . . 1 . . . .
\*   z=1  . . . . . . . .
\*   z=2  . . . 3 . . . .
\*   z=3  . . . . . 1 . .      spawn is over (3,3); (0,3) and (7,3) are open borders
\*   z=4  . . . . . . . .
\*   z=5  . . . 2 . . . .      wedge, rot 2 (rises with z)
\*   z=6  . . . . . . . .
CourseW == 8
CourseH == 7
CourseCells ==
    [k \in 0..(CourseW * CourseH - 1) |->
        IF k = 0 * CourseW + 3 THEN TILE_CUBE
        ELSE IF k = 2 * CourseW + 3 THEN TILE_END
        ELSE IF k = 3 * CourseW + 5 THEN TILE_CUBE
        ELSE IF k = 5 * CourseW + 3 THEN TILE_WEDGE
        ELSE TILE_EMPTY]
CourseRots ==
    [k \in 0..(CourseW * CourseH - 1) |-> IF k = 5 * CourseW + 3 THEN 2 ELSE 0]

-----------------------------------------------------------------------------
(* the frame loop of main *)

\* memset 0, then px = pz = 3.5, py = 2.0
SpawnPlayer ==
    [px |-> SPAWN_X, py |-> SPAWN_Y, pz |-> SPAWN_Z, vx |-> 0, vy |-> 0, vz |-> 0,
     yaw |-> 0, pitch |-> 0, grounded |-> 0, time_since_grounded |-> 0]

Key(f, s, j, sp) ==
    [move_fwd |-> f, move_strafe |-> s, jump |-> j, sprint |-> sp,
     mouse_dx |-> 0, mouse_dy |-> 0]

\* lines 771-772: the mouse motion of the frame's events, in pixels, added to the Input
Look(k, dx, dy) == [k EXCEPT !.mouse_dx = dx, !.mouse_dy = dy]

NoInput == Key(0, 0, 0, 0)

\* the keyboard states the frame loop samples: <<Input, R key>>
Keys ==
    { <<Key(f, s, j, sp), r>> :
        f \in {-1, 0, 1}, s \in {-1, 0, 1}, j \in {0, 1}, sp \in {0, 1}, r \in {0, 1} }

\* the physics_step call of line 855 and what it left, for the properties;
\* other is what the same call leaves when only the sprint flag differs
NoCall ==
    [ran |-> FALSE, p0 |-> SpawnPlayer, inp |-> NoInput, lc0 |-> 0, unsup0 |-> -1,
     sj0 |-> FALSE, integ |-> SpawnPlayer, post |-> SpawnPlayer, jumped |-> FALSE,
     lc |-> 0, other |-> [p |-> SpawnPlayer, lc |-> 0]]

\* units of the look mapper: tenths of a pixel, 1/10000 radian per pixel, and their
\* product, 1/100000 radian, for yaw and pitch deltas
PIXEL == 10
SENS == 10000
ANGLE == PIXEL * SENS

\* const double MOUSE_SMOOTH = 0.6, in tenths
MOUSE_SMOOTH == 6

\* mouse_sensitivity = 0.0028; the settings menu moves it by 0.0005 in [0.0005, 0.01]
SENS_INIT == (28 * SENS) \div 10000
SENS_STEP == (5 * SENS) \div 10000
SENS_MIN == (5 * SENS) \div 10000
SENS_MAX == SENS \div 100

\* 1.45 radians
PITCH_LIMIT == (145 * ANGLE) \div 100

\* lerp(a, b, t) with t in tenths
lerp(a, b, t) == a + TruncDiv((b - a) * t, 10)

\* mutant of clamp_pitch: the pitch is not clamped
clamp_pitch_off(v) == v

\* line 848
clamp_pitch(v) == clampd(v, -PITCH_LIMIT, PITCH_LIMIT)

\* lines 843-849: the smoothed mouse deltas applied to the current state; dxs and dys
\* are the new mouse_dx_smooth and mouse_dy_smooth
apply_look(p, dxs, dys) ==
    IF menu_open = 0
    THEN LET xsign == IF invert_mouse_x = 1 THEN -1 ELSE 1
             ysign == IF invert_mouse_y = 1 THEN 1 ELSE -1
         IN [p EXCEPT !.yaw = @ + xsign * dxs * mouse_sensitivity,
                      !.pitch = clamp_pitch(@ + ysign * dys * mouse_sensitivity)]
    ELSE p

\* mutant of frame_dt: the measured delta is added as it is
frame_dt_unclamped(raw_dt) == raw_dt

\* line 689: frame_dt = clampd(cur - prev_time, 0.0, 0.25)
frame_dt(raw_dt) == clampd(raw_dt, 0, MAX_FRAME_DT)

\* mutant of loop_done: the stepping loop runs at most one fixed step per frame
loop_done_after_one == frame_steps >= 1 \/ accumulator < PHYS_DT

\* line 854: the condition of the stepping loop fails
loop_done == accumulator < PHYS_DT

\* mutant of interp: the renderer is handed the current value
interp_current(a, b, acc) == b

\* lines 860-867: a + (b - a) * alpha, alpha = acc / PHYS_DT
interp(a, b, acc) == a + TruncDiv((b - a) * acc, PHYS_DT)

\* lines 858-868: alpha is kept as accumulator, its numerator over PHYS_DT
interpolate(a, b, acc) ==
    [drawn |-> TRUE, alpha |-> acc,
     px |-> interp(a.px, b.px, acc), py |-> interp(a.py, b.py, acc),
     pz |-> interp(a.pz, b.pz, acc),
     vx |-> interp(a.vx, b.vx, acc), vy |-> interp(a.vy, b.vy, acc),
     vz |-> interp(a.vz, b.vz, acc),
     yaw |-> interp(a.yaw, b.yaw, acc), pitch |-> interp(a.pitch, b.pitch, acc),
     grounded |-> b.grounded,
     from |-> a, to |-> b]

\* render_player is a local of the loop body: nothing until line 859 of the frame
NoRender == [interpolate(SpawnPlayer, SpawnPlayer, 0) EXCEPT !.drawn = FALSE]

\* load_path[0] = '\0'
NoPath == <<>>

NoLoad == [ran |-> FALSE, rots_null |-> FALSE]
NoHeight == [ran |-> FALSE]

\* the collision pass of a step placed the foot: a resolver or the floor clamp set
\* grounded.  ig is the state handed to resolve_collisions, r what it returned
landed_in(ig, r, lc) ==
    IF ig.grounded = 0 THEN r.p.grounded = 1
    ELSE IF r.p.py # ig.py THEN TRUE
    ELSE resolve_collisions([ig EXCEPT !.grounded = 0], lc).p.grounded = 1

\* mutant of step_dt: the time step follows the time accumulated by the frame
step_dt_frame == fmin(accumulator, 2 * PHYS_DT) \div substeps

\* PHYS_DT / substeps, the dt of every physics_step call
step_dt == PHYS_DT \div substeps

InitWith(w, h, cells, rots) ==
    /\ map_w = w /\ map_h = h /\ map_cells = cells /\ map_rots = rots
    /\ state_curr = SpawnPlayer /\ state_prev = SpawnPlayer
    /\ in = NoInput /\ kb_r = 0 /\ level_complete = 0
    /\ accumulator = 0 /\ pc = "frame" /\ sub = 0 /\ steps = 0
    /\ last = NoCall /\ unsup = -1 /\ since_jump = FALSE
    /\ ref = SpawnPlayer
    /\ render_player = NoRender /\ frame_steps = 0
    /\ mouse_dx_smooth = 0 /\ mouse_dy_smooth = 0
    /\ mouse_sensitivity = SENS_INIT /\ invert_mouse_y = 1 /\ invert_mouse_x = 0
    /\ menu_open = 0 /\ menu_selected = 0 /\ menu_sub = 0 /\ load_path = NoPath
    /\ load_call = NoLoad /\ height_call = NoHeight /\ elapsed = 0

\* lines 688-852: clamp the frame delta, sample the keys (none while the menu is open),
\* smooth the mouse deltas and turn the view, copy current to previous
BeginFrame(raw_dt, keys) ==
    /\ pc = "frame"
    /\ accumulator' = accumulator + frame_dt(raw_dt)
    /\ elapsed' = elapsed + frame_dt(raw_dt)
    /\ in' = IF menu_open = 0 THEN keys[1] ELSE NoInput
    /\ kb_r' = keys[2]
    /\ mouse_dx_smooth' = lerp(mouse_dx_smooth, PIXEL * in'.mouse_dx, 10 - MOUSE_SMOOTH)
    /\ mouse_dy_smooth' = lerp(mouse_dy_smooth, PIXEL * in'.mouse_dy, 10 - MOUSE_SMOOTH)
    /\ state_curr' = apply_look(state_curr, mouse_dx_smooth', mouse_dy_smooth')
    /\ state_prev' = state_curr'
    /\ frame_steps' = 0
    /\ render_player' = NoRender
    /\ pc' = "step"
    /\ UNCHANGED <<map_w, map_h, map_cells, map_rots, level_complete,
                   sub, steps, last, unsup, since_jump, ref,
                   mouse_sensitivity, invert_mouse_y, invert_mouse_x, menu_vars,
                   load_call, height_call>>

\* line 855: one call of physics_step inside while (accumulator >= PHYS_DT);
\* line 856 after the last of the substeps
PhysStep ==
    /\ pc = "step"
    /\ accumulator >= PHYS_DT
    /\ LET r == physics_step(state_curr, in, step_dt, level_complete)
           ig == pre_collide(state_curr, in, step_dt)
           jo == jump_ok(update_timer(accelerate(state_curr, in, step_dt), step_dt), in)
           ld == landed_in(ig, r, level_complete)
       IN /\ state_curr' = r.p
          /\ level_complete' = r.lc
          /\ last' = [ran |-> TRUE, p0 |-> state_curr, inp |-> in, lc0 |-> level_complete,
                      unsup0 |-> unsup, sj0 |-> since_jump, integ |-> ig, post |-> r.p,
                      jumped |-> jo, lc |-> r.lc,
                      other |-> physics_step(state_curr,
                                             [in EXCEPT !.sprint = 1 - in.sprint],
                                             step_dt, level_complete)]
          /\ unsup' = IF jo THEN -1
                      ELSE IF ld THEN 0
                      ELSE IF unsup >= 0 THEN unsup + step_dt ELSE -1
          /\ since_jump' = IF r.p.grounded = 1 THEN FALSE
                           ELSE IF jo THEN TRUE ELSE since_jump
    /\ sub' = (sub + 1) % substeps
    /\ accumulator' = IF sub = substeps - 1 THEN accumulator - PHYS_DT ELSE accumulator
    /\ steps' = IF sub = substeps - 1 THEN steps + 1 ELSE steps
    /\ frame_steps' = IF sub = substeps - 1 THEN frame_steps + 1 ELSE frame_steps
    /\ UNCHANGED <<map_w, map_h, map_cells, map_rots, state_prev, in, kb_r, pc,
                   render_player, look_vars, menu_vars, call_vars>>

\* lines 858-935: the loop has ended; the interpolated state is handed to the
\* renderer; R restarts a completed level
EndFrame ==
    /\ pc = "step"
    /\ sub = 0
    /\ loop_done
    /\ render_player' = interpolate(state_prev, state_curr, accumulator)
    /\ IF level_complete = 1 /\ kb_r = 1
       THEN /\ level_complete' = 0
            /\ state_curr' = [state_curr EXCEPT !.px = SPAWN_X, !.pz = SPAWN_Z,
                                 !.py = SPAWN_Y, !.vx = 0, !.vy = 0, !.vz = 0,
                                 !.grounded = 0]
            /\ unsup' = -1
       ELSE UNCHANGED <<level_complete, state_curr, unsup>>
    /\ pc' = "frame"
    /\ UNCHANGED <<map_w, map_h, map_cells, map_rots, state_prev, in, kb_r, accumulator,
                   sub, steps, last, since_jump, ref, frame_steps, look_vars, menu_vars,
                   call_vars>>

-----------------------------------------------------------------------------
(* Spec: the game on the course map, one fixed step per frame *)

\* W/S/A/D alone, W+D, D with shift, S with R; each with and without space
HeldKeys ==
    { k \in Keys :
        /\ <<k[1].move_fwd, k[1].move_strafe>>
              \in {<<0, 0>>, <<1, 0>>, <<-1, 0>>, <<0, 1>>, <<0, -1>>, <<1, 1>>}
        /\ k[1].sprint = 1 => <<k[1].move_fwd, k[1].move_strafe>> = <<0, 1>>
        /\ k[2] = 1 => (<<k[1].move_fwd, k[1].move_strafe>> = <<-1, 0>> /\ k[1].sprint = 0) }

\* key schedules explored: the movement, shift and R keys are held from the first
\* frame on, space is pressed at any frame and held from then on
KeysAfter(old, old_r, new, first) ==
    /\ new \in HeldKeys
    /\ \/ first
       \/ /\ new[1].move_fwd = old.move_fwd /\ new[1].move_strafe = old.move_strafe
          /\ new[1].sprint = old.sprint /\ new[2] = old_r
          /\ new[1].jump >= old.jump

Init == InitWith(CourseW, CourseH, CourseCells, CourseRots)

Frame ==
    /\ steps < MaxSteps
    /\ \E k \in Keys : KeysAfter(in, kb_r, k, steps = 0) /\ BeginFrame(PHYS_DT, k)

Step == PhysStep /\ UNCHANGED ref

Next == Frame \/ Step \/ EndFrame

Spec == Init /\ [][Next]_vars

-----------------------------------------------------------------------------
(* Properties of Spec *)

\* the foot rests on something: within EPSILON above the floor, above a cube top whose
\* footprint the player's footprint overlaps, or on a wedge surface under the player
OnCubeTop(p, cx, cz) ==
    /\ in_map(cx, cz) /\ tile_at(cx, cz) = TILE_CUBE
    /\ p.px + PLAYER_RADIUS > cx * POS /\ p.px - PLAYER_RADIUS < (cx + 1) * POS
    /\ p.pz + PLAYER_RADIUS > cz * POS /\ p.pz - PLAYER_RADIUS < (cz + 1) * POS
    /\ p.py >= POS /\ p.py <= POS + EPSILON
OnWedge(p, cx, cz) ==
    /\ in_map(cx, cz) /\ tile_at(cx, cz) = TILE_WEDGE
    /\ p.px - cx * POS >= -PLAYER_RADIUS /\ p.px - cx * POS <= POS + PLAYER_RADIUS
    /\ p.pz - cz * POS >= -PLAYER_RADIUS /\ p.pz - cz * POS <= POS + PLAYER_RADIUS
    /\ p.py <= wedge_height_at_local(p.px - cx * POS, p.pz - cz * POS,
                                     map_rots[cz * map_w + cx]) + EPSILON
OnSupport(p) ==
    \/ p.py <= EPSILON
    \/ \E cx \in 0..(map_w - 1), cz \in 0..(map_h - 1) :
          OnCubeTop(p, cx, cz) \/ OnWedge(p, cx, cz)

\* C1: a jump requested in a physics step that starts BUNNY_HOP_TIME or more after the
\* player stopped being supported (no collision pass has placed the foot since, and the
\* player did not jump) is refused.  unsup0 counts from the last pass that placed the
\* foot; one fixed step is allowed for the moment the support was actually lost.
C1_LateJumpRefused ==
    (last.ran /\ last.unsup0 >= BUNNY_HOP_TIME + PHYS_DT /\ last.inp.jump = 1)
        => (~last.jumped /\ last.integ.vy # JUMP_VELOCITY * VEL)

\* C2: a jump requested in a physics step that starts less than BUNNY_HOP_TIME after the
\* player stopped being supported without jumping sets vy to exactly JUMP_VELOCITY,
\* clears grounded and sets time_since_grounded to BUNNY_HOP_TIME before the position
\* is integrated (py has moved by JUMP_VELOCITY * dt when the collision pass begins).
C2_GraceJumpHonoured ==
    (last.ran /\ last.unsup0 >= 0 /\ last.unsup0 < BUNNY_HOP_TIME + PHYS_DT
              /\ last.inp.jump = 1)
        => /\ last.integ.vy = JUMP_VELOCITY * VEL
           /\ last.integ.grounded = 0
           /\ last.integ.time_since_grounded = BUNNY_HOP_TIME
           /\ last.integ.py = last.p0.py + JUMP_VELOCITY * VEL * step_dt

\* C2 witness: the player walked off (no pass has placed the foot for more than a fixed
\* step), the jump came inside the window and was honoured
C2_Witness ==
    /\ last.ran /\ last.unsup0 > PHYS_DT /\ last.unsup0 < BUNNY_HOP_TIME
    /\ last.inp.jump = 1 /\ last.jumped
    /\ ~OnSupport(last.p0)
    /\ last.integ.vy = JUMP_VELOCITY * VEL

\* C3: after every physics step grounded is true only if the player is supported; a
\* player that has walked off a cube top and is falling has grounded = 0.
C3_GroundedMeansSupported ==
    (last.ran /\ last.post.grounded = 1) => OnSupport(last.post)

\* C4: cells outside the grid act as solid cubes, so a player whose foot is below the
\* cube height never has its position outside the grid.
C4_OutsideCellsSolid ==
    (last.ran /\ last.post.py < POS)
        => /\ last.post.px >= 0 /\ last.post.px <= map_w * POS
           /\ last.post.pz >= 0 /\ last.post.pz <= map_h * POS

\* C5: no double jump.  In every physics step that starts after a successful jump and
\* before grounded has been set again, time_since_grounded >= BUNNY_HOP_TIME and no
\* jump succeeds, also with the jump key held and across an R restart.
C5_NoDoubleJump ==
    (last.ran /\ last.sj0 /\ last.p0.grounded = 0)
        => /\ last.p0.time_since_grounded >= BUNNY_HOP_TIME
           /\ ~last.jumped
           /\ last.integ.vy = last.p0.vy - (GRAVITY * VEL * step_dt) \div TICKS

\* C5 witness: a jump request made in the air after a jump, refused
C5_Witness ==
    /\ last.ran /\ last.sj0 /\ last.p0.grounded = 0 /\ last.inp.jump = 1
    /\ ~last.jumped /\ last.p0.py > POS

\* C7: py >= 0 after every physics step, and a collision pass that finds py < 0 after
\* the nine cells sets py = 0, vy = 0 and grounded.
C7_FloorInvariant ==
    /\ state_curr.py >= 0
    /\ last.ran =>
          /\ last.post.py >= 0
          /\ resolve_cells(last.integ, 0).p.py < 0
                => (last.post.py = 0 /\ last.post.vy = 0 /\ last.post.grounded = 1)

\* C7 witness: a pass found the foot below the floor while falling
C7_Witness ==
    /\ last.ran /\ resolve_cells(last.integ, 0).p.py < 0 /\ last.integ.vy < 0
    /\ last.p0.grounded = 0 /\ last.post.py = 0

\* the footprint of p touches or overlaps the unit square of a goal cell of the grid
GoalUnderFoot(p) ==
    \E x \in 0..(map_w - 1), z \in 0..(map_h - 1) :
        /\ tile_at(x, z) = TILE_END
        /\ p.px + PLAYER_RADIUS >= x * POS /\ p.px - PLAYER_RADIUS <= (x + 1) * POS
        /\ p.pz + PLAYER_RADIUS >= z * POS /\ p.pz - PLAYER_RADIUS <= (z + 1) * POS

\* C14: a physics step at whose end the player's footprint overlaps the unit square of
\* a goal cell leaves level_complete = 1, whatever the player's height.
C14_GoalDetected ==
    (last.ran /\ GoalUnderFoot(last.post)) => last.lc = 1

\* C14 witness: the step that raises level_complete, the player in the air above the
\* height of a cube
C14_Witness ==
    /\ last.ran /\ last.lc0 = 0 /\ last.lc = 1
    /\ GoalUnderFoot(last.post) /\ last.post.py > POS

\* C15: a physics step that starts with grounded = 0 leaves the same state and the same
\* level_complete whether the sprint flag of the Intent is set or not.
C15_SprintNoEffectInAir ==
    (last.ran /\ last.p0.grounded = 0)
        => (last.other.p = last.post /\ last.other.lc = last.lc)

\* C15 witness: in the air with shift and D held, already at MAX_WALK_SPEED, where a
\* sprint target would have accelerated further
C15_Witness ==
    /\ last.ran /\ last.p0.grounded = 0 /\ last.inp.sprint = 1 /\ last.inp.move_strafe = 1
    /\ last.p0.vx = MAX_WALK_SPEED * VEL /\ last.post.vx = MAX_WALK_SPEED * VEL
    /\ last.other.p = last.post

-----------------------------------------------------------------------------
(* SpecRest: a cube under the spawn point, no key pressed, one second at rest *)

\* fixed steps given to the fall from the spawn point onto the cube top
RestSettle == 40

RestCells == [CourseCells EXCEPT ![3 * CourseW + 3] = TILE_CUBE]

InitRest == InitWith(CourseW, CourseH, RestCells, CourseRots)

FrameRest ==
    /\ steps < RestSettle + PHYS_HZ
    /\ BeginFrame(PHYS_DT, <<NoInput, 0>>)

NextRest == FrameRest \/ Step \/ EndFrame

SpecRest == InitRest /\ [][NextRest]_vars

AtRest(p) ==
    /\ p.px = SPAWN_X /\ p.pz = SPAWN_Z /\ p.py = POS + EPSILON
    /\ p.vx = 0 /\ p.vy = 0 /\ p.vz = 0 /\ p.grounded = 1

\* C6 as stated: from rest on a cube top, with no intent, every physics_step call
\* leaves px, pz and py as they were and grounded set.
C6_RestEveryPhysicsStep ==
    (last.ran /\ AtRest(last.p0) /\ last.inp = NoInput)
        => /\ last.post.px = last.p0.px /\ last.post.pz = last.p0.pz
           /\ last.post.py = last.p0.py /\ last.post.grounded = 1

\* C6 amended: the player at rest on the cube top is at the same px, pz and py, with
\* zero velocity and grounded, after every fixed step (both sub-steps) of the second;
\* the first sub-step of each fixed step leaves px, pz and grounded alone but lets the
\* foot sink by GRAVITY * dt * dt inside the epsilon band, with vy = -GRAVITY * dt.
C6_RestEveryFixedStep ==
    /\ (pc = "frame" /\ steps >= RestSettle) => AtRest(state_curr)
    /\ (last.ran /\ AtRest(last.p0))
          => /\ last.post.px = last.p0.px /\ last.post.pz = last.p0.pz
             /\ last.post.grounded = 1
             /\ last.post.vy = - (GRAVITY * VEL * step_dt) \div TICKS
             /\ last.post.py = last.p0.py - step_dt * ((GRAVITY * VEL * step_dt) \div TICKS)
             /\ last.post.py > POS

\* C6 witness: still at rest when the second is over
C6_Witness ==
    /\ pc = "frame" /\ steps = RestSettle + PHYS_HZ
    /\ AtRest(state_curr) /\ AtRest(state_prev) /\ in = NoInput

-----------------------------------------------------------------------------
(* SpecResolve: one resolver call on one cell, for sampled player states *)

\* a 3 x 3 grid, empty but for cell (1,1)
OneCell(t) == [k \in 0..8 |-> IF k = 4 THEN t ELSE TILE_EMPTY]

\* px and pz relative to the cell's minimum corner, py, and the velocities sampled
SampleX ==
    { -PLAYER_RADIUS - 1, -PLAYER_RADIUS, -PLAYER_RADIUS + 1000, 0, POS \div 2, POS,
      POS + PLAYER_RADIUS - 1000, POS + PLAYER_RADIUS, POS + PLAYER_RADIUS + 1 }
SampleZ ==
    { -PLAYER_RADIUS, -PLAYER_RADIUS + 1000, POS \div 2, POS + PLAYER_RADIUS,
      POS + PLAYER_RADIUS + 1 }
SampleY ==
    { -PLAYER_HEIGHT, -PLAYER_HEIGHT + 1000, 0, EPSILON, EPSILON + 1,
      POS \div 2 + EPSILON, POS \div 2 + EPSILON + 1, POS - 1000, POS - 1, POS,
      POS + EPSILON, POS + EPSILON + 1 }
SampleV == { <<0, 0>>, <<1000, -1000>> }

InitResolve ==
    /\ map_w = 3 /\ map_h = 3
    /\ \E t \in {TILE_CUBE, TILE_WEDGE, TILE_END} : map_cells = OneCell(t)
    /\ \E r \in 0..3 : /\ map_rots = OneCell(r)
                       /\ map_cells[4] # TILE_WEDGE => r = 0
    /\ \E x \in SampleX, y \in SampleY, z \in SampleZ, v \in SampleV,
          w \in {-1000, 0, 1000}, g \in {0, 1} :
          state_curr = [SpawnPlayer EXCEPT !.px = POS + x, !.py = y, !.pz = POS + z,
                           !.vx = v[1], !.vy = w, !.vz = v[2], !.grounded = g]
    /\ state_prev = state_curr
    /\ level_complete \in {0, 1}
    /\ in = NoInput /\ kb_r = 0 /\ accumulator = 0 /\ pc = "frame" /\ sub = 0
    /\ steps = 0 /\ last = NoCall /\ unsup = -1 /\ since_jump = FALSE
    /\ ref = SpawnPlayer
    /\ render_player = NoRender /\ frame_steps = 0
    /\ mouse_dx_smooth = 0 /\ mouse_dy_smooth = 0
    /\ mouse_sensitivity = SENS_INIT /\ invert_mouse_y = 1 /\ invert_mouse_x = 0
    /\ menu_open = 0 /\ menu_selected = 0 /\ menu_sub = 0 /\ load_path = NoPath
    /\ load_call = NoLoad /\ height_call = NoHeight /\ elapsed = 0

\* lines 534-541 for the cell (1,1): the resolver of its tile type
Resolve ==
    /\ pc = "frame"
    /\ LET r == resolve_cell([p |-> state_curr, lc |-> level_complete], 1, 1)
       IN /\ state_curr' = r.p
          /\ level_complete' = r.lc
          /\ last' = [NoCall EXCEPT !.ran = TRUE, !.p0 = state_curr,
                         !.lc0 = level_complete, !.integ = state_curr, !.post = r.p,
                         !.lc = r.lc]
    /\ pc' = "resolved"
    /\ UNCHANGED <<map_w, map_h, map_cells, map_rots, state_prev, in, kb_r, accumulator,
                   sub, steps, unsup, since_jump, ref, render_player, frame_steps,
                   look_vars, menu_vars, call_vars>>

SpecResolve == InitResolve /\ [][Resolve]_vars

\* the player's box and the solid of cell (1,1), as the properties below read them
BoxApartFromCube(p) ==
    \/ p.px + PLAYER_RADIUS <= POS \/ p.px - PLAYER_RADIUS >= 2 * POS
    \/ p.py + PLAYER_HEIGHT <= 0 \/ p.py >= POS
    \/ p.pz + PLAYER_RADIUS <= POS \/ p.pz - PLAYER_RADIUS >= 2 * POS
OutsideWedgeFootprint(p) ==
    \/ p.px < POS - PLAYER_RADIUS \/ p.px > 2 * POS + PLAYER_RADIUS
    \/ p.pz < POS - PLAYER_RADIUS \/ p.pz > 2 * POS + PLAYER_RADIUS
WedgeSurface(p) ==
    LET lx == clampd(p.px - POS, 0, POS)
        lz == clampd(p.pz - POS, 0, POS)
    IN <<lx, POS - lx, lz, POS - lz>>[map_rots[4] + 1]
FootprintApartFromSquare(p) ==
    \/ p.px + PLAYER_RADIUS < POS \/ p.px - PLAYER_RADIUS > 2 * POS
    \/ p.pz + PLAYER_RADIUS < POS \/ p.pz - PLAYER_RADIUS > 2 * POS
FullyOutside(p) ==
    \/ map_cells[4] = TILE_CUBE /\ BoxApartFromCube(p)
    \/ map_cells[4] = TILE_WEDGE
         /\ (OutsideWedgeFootprint(p) \/ p.py > WedgeSurface(p) + EPSILON)
    \/ map_cells[4] = TILE_END /\ FootprintApartFromSquare(p)

\* C8: a resolver applied to a player whose box is fully outside the cell's solid (cube:
\* the box and the unit cube do not overlap; wedge: outside the radius-inflated
\* footprint, or the foot above the surface height + 0.001; goal: the footprint and the
\* unit square share no point) leaves position, velocity, grounded and level_complete
\* unchanged.
C8_NoOverlapNoOp ==
    (pc = "resolved" /\ FullyOutside(last.p0))
        => (state_curr = last.p0 /\ level_complete = last.lc0)

\* C8 witness: inside the footprint of a wedge but above its surface, and untouched
C8_Witness ==
    /\ pc = "resolved" /\ map_cells[4] = TILE_WEDGE /\ ~OutsideWedgeFootprint(last.p0)
    /\ last.p0.py = WedgeSurface(last.p0) + EPSILON + 1 /\ last.p0.vy < 0
    /\ state_curr = last.p0

\* penetration depths of the player's box into the unit cube of cell (1,1)
PenX(p) == fmin(p.px + PLAYER_RADIUS - POS, 2 * POS - (p.px - PLAYER_RADIUS))
PenY(p) == fmin(p.py + PLAYER_HEIGHT, POS - p.py)
PenZ(p) == fmin(p.pz + PLAYER_RADIUS - POS, 2 * POS - (p.pz - PLAYER_RADIUS))

\* entering from above: the centre of the player's box is above the centre of the cube
FromAbove(p) == 2 * p.py + PLAYER_HEIGHT > POS

\* C9: a player that overlaps a cube from above, the vertical penetration being the
\* smallest of the three, with zero horizontal velocity, is left by resolve_cube with
\* grounded = 1, vy = 0 and py = cube top + 0.001, and px, pz, vx, vz unchanged.
C9_LandingOnCube ==
    (/\ pc = "resolved" /\ map_cells[4] = TILE_CUBE /\ ~BoxApartFromCube(last.p0)
     /\ PenY(last.p0) <= PenX(last.p0) /\ PenY(last.p0) <= PenZ(last.p0)
     /\ FromAbove(last.p0) /\ last.p0.vx = 0 /\ last.p0.vz = 0)
        => /\ state_curr.grounded = 1 /\ state_curr.vy = 0
           /\ state_curr.py = POS + EPSILON
           /\ state_curr.px = last.p0.px /\ state_curr.pz = last.p0.pz
           /\ state_curr.vx = 0 /\ state_curr.vz = 0

\* C9 witness: a falling, not yet grounded player whose foot was inside the cube top
C9_Witness ==
    /\ pc = "resolved" /\ map_cells[4] = TILE_CUBE /\ ~BoxApartFromCube(last.p0)
    /\ PenY(last.p0) < PenX(last.p0) /\ PenY(last.p0) < PenZ(last.p0)
    /\ FromAbove(last.p0) /\ last.p0.vx = 0 /\ last.p0.vz = 0
    /\ last.p0.vy < 0 /\ last.p0.grounded = 0 /\ last.p0.py < POS
    /\ state_curr.grounded = 1 /\ state_curr.py = POS + EPSILON

-----------------------------------------------------------------------------
(* SpecDet: one constant Intent, the elapsed time cut into frames of any length *)

\* frames begin while fewer than DetSteps fixed steps have run
DetSteps == 14

\* frame deltas in ticks: no time, less than a fixed step, exactly one, one and a bit,
\* more than two, and a stall that MAX_FRAME_DT clamps
DetDeltas == {0, 1, PHYS_DT - 1, PHYS_DT, PHYS_DT + 1, 2 * PHYS_DT + 3, TICKS}

\* the Intents held: none, forward, right with sprint, back-left, each with or without jump
DetKeys ==
    { Key(f, s, j, sp) : <<f, s, sp>> \in {<<0, 0, 0>>, <<1, 0, 0>>, <<0, 1, 1>>, <<-1, -1, 0>>},
                         j \in {0, 1} }

FrameDet ==
    /\ steps < DetSteps
    /\ \E d \in DetDeltas, k \in DetKeys :
          /\ (steps > 0 \/ accumulator > 0) => k = in
          /\ BeginFrame(d, <<k, 0>>)

\* ref: the state after the same number of sub-steps of PHYS_DT / substeps each, however
\* the frames were cut
StepDet ==
    /\ PhysStep
    /\ ref' = physics_step(ref, in, PHYS_DT \div substeps, 0).p

NextDet == FrameDet \/ StepDet \/ EndFrame

SpecDet == Init /\ [][NextDet]_vars

\* C10: with one constant Intent and no look input, the current state after the k-th
\* fixed step (2 sub-steps of PHYS_DT / 2) is the state that k fixed steps produce from
\* the spawn state, whatever frame deltas the elapsed time was cut into.
C10_FixedStepDeterminism ==
    /\ state_curr = ref
    /\ pc = "frame" => (sub = 0 /\ accumulator < PHYS_DT)

\* C10 witness: a moving, jumping player after DetSteps or more fixed steps, reached
\* through frames that left part of a fixed step in the accumulator
C10_Witness ==
    /\ pc = "frame" /\ steps >= DetSteps /\ accumulator = PHYS_DT - 1
    /\ in.jump = 1 /\ in.move_fwd = 1
    /\ state_curr = ref /\ state_curr.pz # SPAWN_Z /\ state_curr.vy # 0

-----------------------------------------------------------------------------
(* The interpolated state and the stepping loop, under SpecDet *)

\* C11: after the stepping loop of every frame 0 <= accumulator < PHYS_DT, so the alpha
\* the interpolated state is computed with is in [0,1).
C11_AlphaInUnitInterval ==
    /\ pc = "frame" => (0 <= accumulator /\ accumulator < PHYS_DT)
    /\ render_player.drawn
          => /\ 0 <= render_player.alpha /\ render_player.alpha < PHYS_DT
             /\ render_player.alpha = accumulator

\* C11 witness: a frame that ran several fixed steps and left most of one behind
C11_Witness ==
    /\ pc = "frame" /\ render_player.drawn /\ frame_steps >= 2
    /\ render_player.alpha = PHYS_DT - 1

\* the continuous fields of a Player
Continuous == {"px", "py", "pz", "vx", "vy", "vz", "yaw", "pitch"}

SameContinuous(a, b) == \A f \in Continuous : a[f] = b[f]

\* C12 as stated: the state handed to the renderer equals the previous state in every
\* continuous field when alpha = 0, never equals the current state for any alpha in
\* [0,1), and has the current state's grounded.
C12_RenderNeverCurrent ==
    render_player.drawn
        => /\ render_player.alpha = 0
                 => SameContinuous(render_player, render_player.from)
           /\ ~SameContinuous(render_player, render_player.to)
           /\ render_player.grounded = render_player.to.grounded

\* what lines 852-868 do hand to the renderer: the previous state in every continuous
\* field when alpha = 0; for alpha in [0,1) a continuous field differs from its current
\* value exactly when the frame's steps changed it (it lies from the previous value up
\* to, not including, the current one), so a frame that ran no step draws the current
\* state; yaw and pitch, which no step changes, are the current ones; grounded is the
\* current state's.
C12_RenderBetween ==
    render_player.drawn
        => LET a == render_player.from
               b == render_player.to
           IN /\ render_player.alpha = 0 => SameContinuous(render_player, a)
              /\ \A f \in Continuous :
                    /\ (a[f] = b[f]) <=> (render_player[f] = b[f])
                    /\ a[f] < b[f] => (a[f] <= render_player[f] /\ render_player[f] < b[f])
                    /\ a[f] > b[f] => (a[f] >= render_player[f] /\ render_player[f] > b[f])
              /\ a.yaw = b.yaw /\ a.pitch = b.pitch
              /\ render_player.grounded = b.grounded

\* a frame in which the player moved and landed, drawn part-way
C12_Witness ==
    /\ render_player.drawn /\ render_player.alpha > 0
    /\ render_player.from.px # render_player.to.px
    /\ render_player.px # render_player.from.px /\ render_player.px # render_player.to.px
    /\ render_player.from.grounded = 0 /\ render_player.to.grounded = 1
    /\ render_player.grounded = 1

-----------------------------------------------------------------------------
(* The wedge resolver on sampled states, under SpecResolve *)

\* resolve_wedge moved the foot of p0 onto the surface of the wedge in cell (1,1)
Snapped(p0, p1) ==
    /\ ~OutsideWedgeFootprint(p0)
    /\ p0.py <= WedgeSurface(p0) + EPSILON
    /\ p1.py = WedgeSurface(p0) + EPSILON

\* C18: for every player state and rotation resolve_wedge leaves px, pz, vx and vz
\* unchanged, never lowers py, never decreases vy (it only raises a negative vy to 0
\* when it snaps) and sets grounded only when it snapped the foot to the surface
\* height + 0.001.
C18_WedgeSupportsFromBelow ==
    (pc = "resolved" /\ map_cells[4] = TILE_WEDGE)
        => /\ state_curr.px = last.p0.px /\ state_curr.pz = last.p0.pz
           /\ state_curr.vx = last.p0.vx /\ state_curr.vz = last.p0.vz
           /\ state_curr.py >= last.p0.py
           /\ state_curr.vy >= last.p0.vy
           /\ state_curr.vy # last.p0.vy
                 => (last.p0.vy < 0 /\ state_curr.vy = 0 /\ Snapped(last.p0, state_curr))
           /\ state_curr.grounded >= last.p0.grounded
           /\ state_curr.grounded # last.p0.grounded => Snapped(last.p0, state_curr)
           /\ state_curr.py # last.p0.py => Snapped(last.p0, state_curr)
           /\ level_complete = last.lc0

\* C18 witness: a falling player below the slope, moving sideways, snapped and kept moving
C18_Witness ==
    /\ pc = "resolved" /\ map_cells[4] = TILE_WEDGE
    /\ last.p0.vy < 0 /\ last.p0.grounded = 0 /\ last.p0.vx # 0
    /\ last.p0.py < WedgeSurface(last.p0) /\ WedgeSurface(last.p0) > 0
    /\ Snapped(last.p0, state_curr) /\ state_curr.vy = 0 /\ state_curr.grounded = 1
    /\ state_curr.vx = last.p0.vx

\* the fields of p1 that differ from p0
Changed(p0, p1) == {f \in DOMAIN p0 : p0[f] # p1[f]}

\* C21: for every player state overlapping a cube, resolve_cube corrects along exactly
\* one axis, the one of least penetration with ties broken Y first, then X, then Z;
\* position and velocity of the other two axes are unchanged, and a horizontal
\* correction moves the player by the penetration depth away from the cube centre,
\* scales only that axis' velocity by 0.3 and leaves grounded unchanged.
C21_CubeAxisChoice ==
    (pc = "resolved" /\ map_cells[4] = TILE_CUBE /\ ~BoxApartFromCube(last.p0))
        => LET p0 == last.p0
               p1 == state_curr
           IN IF PenY(p0) <= PenX(p0) /\ PenY(p0) <= PenZ(p0)
              THEN /\ Changed(p0, p1) \subseteq {"py", "vy", "grounded"}
                   /\ p1.py # p0.py
              ELSE IF PenX(p0) <= PenZ(p0)
              THEN /\ Changed(p0, p1) \subseteq {"px", "vx"}
                   /\ p1.px = IF 2 * p0.px < 3 * POS THEN p0.px - PenX(p0)
                                                     ELSE p0.px + PenX(p0)
                   /\ p1.px # p0.px
                   /\ 10 * p1.vx = 3 * p0.vx
              ELSE /\ Changed(p0, p1) \subseteq {"pz", "vz"}
                   /\ p1.pz = IF 2 * p0.pz < 3 * POS THEN p0.pz - PenZ(p0)
                                                     ELSE p0.pz + PenZ(p0)
                   /\ p1.pz # p0.pz
                   /\ 10 * p1.vz = 3 * p0.vz

\* C21 witness: the three penetrations are equal and the player, falling and moving
\* sideways, is put on the cube top with its horizontal state untouched
C21_Witness ==
    /\ pc = "resolved" /\ map_cells[4] = TILE_CUBE /\ ~BoxApartFromCube(last.p0)
    /\ PenY(last.p0) = PenX(last.p0) /\ PenY(last.p0) = PenZ(last.p0)
    /\ last.p0.vx # 0 /\ last.p0.vz # 0 /\ last.p0.vy < 0
    /\ state_curr.py = POS + EPSILON /\ state_curr.vy = 0
    /\ state_curr.px = last.p0.px /\ state_curr.vx = last.p0.vx

\* a horizontal tie: the x and z penetrations are equal and smaller than the vertical
\* one, and the player is pushed along x with vx scaled
C21_WitnessHorizontal ==
    /\ pc = "resolved" /\ map_cells[4] = TILE_CUBE /\ ~BoxApartFromCube(last.p0)
    /\ PenX(last.p0) = PenZ(last.p0) /\ PenX(last.p0) < PenY(last.p0)
    /\ last.p0.vx # 0 /\ last.p0.vz # 0
    /\ state_curr.px # last.p0.px /\ state_curr.pz = last.p0.pz
    /\ 10 * state_curr.vx = 3 * last.p0.vx /\ state_curr.vz = last.p0.vz

-----------------------------------------------------------------------------
(* SpecHeight: wedge_height_at_local on sampled local coordinates *)

SampleLocal ==
    { -POS, -1, 0, 1, POS \div 4, POS \div 2, POS - 1, POS, POS + 1, 2 * POS }

InitHeight ==
    /\ map_w = 3 /\ map_h = 3 /\ map_cells = OneCell(TILE_WEDGE)
    /\ \E r \in 0..3 : map_rots = OneCell(r)
    /\ state_curr = SpawnPlayer /\ state_prev = SpawnPlayer
    /\ in = NoInput /\ kb_r = 0 /\ level_complete = 0
    /\ accumulator = 0 /\ pc = "frame" /\ sub = 0 /\ steps = 0
    /\ last = NoCall /\ unsup = -1 /\ since_jump = FALSE
    /\ ref = SpawnPlayer
    /\ render_player = NoRender /\ frame_steps = 0
    /\ mouse_dx_smooth = 0 /\ mouse_dy_smooth = 0
    /\ mouse_sensitivity = SENS_INIT /\ invert_mouse_y = 1 /\ invert_mouse_x = 0
    /\ menu_open = 0 /\ menu_selected = 0 /\ menu_sub = 0 /\ load_path = NoPath
    /\ load_call = NoLoad /\ elapsed = 0
    /\ \E x \in SampleLocal, z \in SampleLocal :
          height_call = [ran |-> FALSE, lx |-> x, lz |-> z, rot |-> map_rots[4], h |-> 0]

\* line 519: the height of the wedge of cell (1,1) at the local coordinates
Height ==
    /\ pc = "frame"
    /\ ~height_call.ran
    /\ height_call' =
          [height_call EXCEPT !.ran = TRUE,
              !.h = wedge_height_at_local(height_call.lx, height_call.lz, height_call.rot)]
    /\ pc' = "resolved"
    /\ UNCHANGED <<map_w, map_h, map_cells, map_rots, state_prev, state_curr, in, kb_r,
                   level_complete, accumulator, sub, steps, last, unsup, since_jump, ref,
                   render_player, frame_steps, look_vars, menu_vars, load_call, elapsed>>

SpecHeight == InitHeight /\ [][Height]_vars

\* a local coordinate brought into [0,1]
Into01(v) == IF v < 0 THEN 0 ELSE IF v > POS THEN POS ELSE v

\* C17: for every rotation 0..3 and every local (lx, lz) the height is lx, 1-lx, lz,
\* 1-lz of the coordinates clamped to [0,1]; it is 0 at lx = 0 and 1 at lx = 1 for
\* rotation 0, in {0,1} at the four corners of every rotation, and always in [0,1].
C17_WedgeHeightField ==
    height_call.ran
        => LET c == height_call
               x == Into01(c.lx)
               z == Into01(c.lz)
           IN /\ c.rot = 0 => c.h = x
              /\ c.rot = 1 => c.h = POS - x
              /\ c.rot = 2 => c.h = z
              /\ c.rot = 3 => c.h = POS - z
              /\ (c.rot = 0 /\ c.lx = 0) => c.h = 0
              /\ (c.rot = 0 /\ c.lx = POS) => c.h = POS
              /\ (c.lx \in {0, POS} /\ c.lz \in {0, POS}) => c.h \in {0, POS}
              /\ 0 <= c.h /\ c.h <= POS

\* C17 witness: a coordinate beyond the cell, clamped to its high edge
C17_Witness ==
    /\ height_call.ran /\ height_call.rot = 1 /\ height_call.lx = 2 * POS
    /\ height_call.lz = -1 /\ height_call.h = 0

-----------------------------------------------------------------------------
(* SpecWedge: four ramps around the spawn point, each rising away from it *)

\* fixed steps of a run: the fall from the spawn point, then the walk across a ramp
WedgeSteps == 132

\*   z=1  . . . 2 . . . .      rot 3, rises toward -z
\*   z=3  . 2 . . . 2 . .      rot 1 at x=1 (rises toward -x), rot 0 at x=5
\*   z=5  . . . 2 . . . .      rot 2, rises toward +z
Ramps ==
    { [cx |-> 3, cz |-> 5, rot |-> 2, fwd |-> 1, strafe |-> 0],
      [cx |-> 3, cz |-> 1, rot |-> 3, fwd |-> -1, strafe |-> 0],
      [cx |-> 5, cz |-> 3, rot |-> 0, fwd |-> 0, strafe |-> 1],
      [cx |-> 1, cz |-> 3, rot |-> 1, fwd |-> 0, strafe |-> -1] }

WedgeCells ==
    [k \in 0..(CourseW * CourseH - 1) |->
        IF \E r \in Ramps : k = r.cz * CourseW + r.cx THEN TILE_WEDGE ELSE TILE_EMPTY]

WedgeRots ==
    [k \in 0..(CourseW * CourseH - 1) |->
        IF \E r \in Ramps : k = r.cz * CourseW + r.cx
        THEN (CHOOSE r \in Ramps : k = r.cz * CourseW + r.cx).rot
        ELSE 0]

InitWedge == InitWith(CourseW, CourseH, WedgeCells, WedgeRots)

\* no key, then one of W, S, D, A pressed at any frame and held
FrameWedge ==
    /\ steps < WedgeSteps
    /\ \E r \in Ramps, press \in BOOLEAN :
          LET k == IF press THEN Key(r.fwd, r.strafe, 0, 0) ELSE NoInput
          IN /\ in # NoInput => k = in
             /\ BeginFrame(PHYS_DT, <<k, 0>>)

NextWedge == FrameWedge \/ Step \/ EndFrame

SpecWedge == InitWedge /\ [][NextWedge]_vars

\* the ramp the held key walks up
RampOf(i) == CHOOSE r \in Ramps : r.fwd = i.move_fwd /\ r.strafe = i.move_strafe

\* the analytic height of ramp r under p
RampHeight(p, r) ==
    LET x == Into01(p.px - r.cx * POS)
        z == Into01(p.pz - r.cz * POS)
    IN <<x, POS - x, z, POS - z>>[r.rot + 1]

\* the local coordinate of p along which ramp r rises, and p's speed along it
RampAlong(p, r) ==
    <<p.px - r.cx * POS, (r.cx + 1) * POS - p.px,
      p.pz - r.cz * POS, (r.cz + 1) * POS - p.pz>>[r.rot + 1]
RampSpeed(p, r) == <<p.vx, -p.vx, p.vz, -p.vz>>[r.rot + 1]

\* the centre of p is within the radius-inflated footprint of ramp r
InRamp(p, r) ==
    /\ p.px >= r.cx * POS - PLAYER_RADIUS /\ p.px <= (r.cx + 1) * POS + PLAYER_RADIUS
    /\ p.pz >= r.cz * POS - PLAYER_RADIUS /\ p.pz <= (r.cz + 1) * POS + PLAYER_RADIUS

\* p walks toward or on ramp r: on the floor, or on the surface of the ramp
Walking(p, r) ==
    /\ p.grounded = 1 /\ RampSpeed(p, r) > 0
    /\ \/ p.py = 0 /\ ~InRamp(p, r)
       \/ InRamp(p, r) /\ p.py = RampHeight(p, r) + EPSILON

\* C16: while a player with no jump input walks across a wedge whose height rises in
\* the direction of travel, after every physics step py is the height of the wedge at
\* the player's local position + 0.001, grounded is set and py is not lower than before
\* the step.
C16_WedgeTracksHeight ==
    (/\ last.ran /\ last.inp # NoInput /\ last.inp.jump = 0
     /\ Walking(last.p0, RampOf(last.inp)) /\ InRamp(last.post, RampOf(last.inp)))
        => /\ last.post.py = RampHeight(last.post, RampOf(last.inp)) + EPSILON
           /\ last.post.grounded = 1
           /\ last.post.py >= last.p0.py
           /\ RampAlong(last.post, RampOf(last.inp))
                 > RampAlong(last.p0, RampOf(last.inp))

\* C16 witness: at constant walking speed the step that brings the foot to the top of
\* the ramp, having started the climb from its foot
C16_Witness ==
    /\ last.ran /\ last.inp # NoInput
    /\ Walking(last.p0, RampOf(last.inp)) /\ InRamp(last.post, RampOf(last.inp))
    /\ RampSpeed(last.p0, RampOf(last.inp)) = MAX_WALK_SPEED * VEL
    /\ RampSpeed(last.post, RampOf(last.inp)) = MAX_WALK_SPEED * VEL
    /\ last.p0.py < POS + EPSILON /\ last.p0.py > POS \div 2
    /\ last.post.py = POS + EPSILON
    /\ RampAlong(last.post, RampOf(last.inp)) >= POS
    /\ unsup = 0

-----------------------------------------------------------------------------
(* The menu: SDL_KEYDOWN and SDL_TEXTINPUT events *)

\* load_path holds at most MaxPath characters in the runs explored (511 in the code)
MaxPath == 1

\* the menu and settings variables as one record
MenuState ==
    [open |-> menu_open, selected |-> menu_selected, sub |-> menu_sub, path |-> load_path,
     sens |-> mouse_sensitivity, inv_y |-> invert_mouse_y, inv_x |-> invert_mouse_x,
     running |-> 1]

\* lines 704-760: the if / else-if chain of a key press
menu_key(sym, m) ==
    IF m.open = 0 /\ sym = "ESCAPE"
    THEN [m EXCEPT !.open = 1, !.selected = 0, !.sub = 0]
    ELSE IF m.open = 1 /\ sym = "ESCAPE"
    THEN IF m.sub # 0
         THEN [m EXCEPT !.sub = 0, !.path = <<>>]
         ELSE [m EXCEPT !.open = 0, !.sub = 0]
    ELSE IF m.open = 1 /\ sym = "UP"
    THEN [m EXCEPT !.selected = (m.selected + 4) % 5]
    ELSE IF m.open = 1 /\ sym = "DOWN"
    THEN [m EXCEPT !.selected = (m.selected + 1) % 5]
    ELSE IF m.open = 1 /\ sym = "RETURN"
    THEN IF m.sub = 1 THEN m
         ELSE IF m.selected = 0 THEN [m EXCEPT !.open = 0, !.sub = 0]
         ELSE IF m.selected = 1 THEN [m EXCEPT !.sub = 1, !.path = <<>>]
         ELSE IF m.selected = 2 THEN [m EXCEPT !.sub = 2]
         ELSE IF m.selected = 3 THEN [m EXCEPT !.sub = 3]
         ELSE [m EXCEPT !.running = 0]
    ELSE IF m.open = 1 /\ m.sub = 2
    THEN IF sym = "LEFT"
         THEN [m EXCEPT !.sens = clampd(m.sens - SENS_STEP, SENS_MIN, SENS_MAX)]
         ELSE IF sym = "RIGHT"
         THEN [m EXCEPT !.sens = clampd(m.sens + SENS_STEP, SENS_MIN, SENS_MAX)]
         ELSE IF sym = "i" THEN [m EXCEPT !.inv_y = 1 - m.inv_y]
         ELSE IF sym = "x" THEN [m EXCEPT !.inv_x = 1 - m.inv_x]
         ELSE m
    ELSE m

\* lines 775-825 but for the load of lines 784-814: a key press in the load overlay
load_key(sym, m) ==
    IF m.sub # 1 THEN m
    ELSE IF sym = "BACKSPACE"
    THEN IF Len(m.path) > 0 THEN [m EXCEPT !.path = SubSeq(m.path, 1, Len(m.path) - 1)]
         ELSE m
    ELSE IF sym = "ESCAPE" THEN [m EXCEPT !.sub = 0, !.path = <<>>]
    ELSE m

\* RETURN in the load overlay with a path typed: lines 783-814 run
loads(sym, m) == sym = "RETURN" /\ load_key(sym, menu_key(sym, m)).sub = 1
                 /\ Len(menu_key(sym, m).path) > 0

\* lines 703-761 and 775-825: one SDL_KEYDOWN event that does not load a map
KeyDown(sym) ==
    /\ pc = "frame"
    /\ ~loads(sym, MenuState)
    /\ LET m == load_key(sym, menu_key(sym, MenuState))
       IN /\ menu_open' = m.open /\ menu_selected' = m.selected /\ menu_sub' = m.sub
          /\ load_path' = m.path
          /\ mouse_sensitivity' = m.sens
          /\ invert_mouse_y' = m.inv_y /\ invert_mouse_x' = m.inv_x
          /\ pc' = IF m.running = 0 THEN "quit" ELSE pc
    /\ UNCHANGED <<map_w, map_h, map_cells, map_rots, state_prev, state_curr, in, kb_r,
                   level_complete, accumulator, sub, steps, last, unsup, since_jump, ref,
                   render_player, frame_steps, mouse_dx_smooth, mouse_dy_smooth,
                   call_vars>>

\* lines 762-768: one SDL_TEXTINPUT event of one character, in the load overlay
TextInput(ch) ==
    /\ pc = "frame"
    /\ menu_sub = 1
    /\ Len(load_path) < MaxPath
    /\ load_path' = Append(load_path, ch)
    /\ UNCHANGED <<map_w, map_h, map_cells, map_rots, state_prev, state_curr, in, kb_r,
                   level_complete, accumulator, pc, sub, steps, last, unsup, since_jump,
                   ref, render_player, frame_steps, look_vars, menu_open, menu_selected,
                   menu_sub, call_vars>>

-----------------------------------------------------------------------------
(* SpecLook: the settings are changed in the menu, then the mouse is moved *)

\* frames (one fixed step each) of a run
LookSteps == 3

\* the vertical mouse motion of a frame, in pixels
LookDeltas == {-400, 400}

LookKeys == {"ESCAPE", "DOWN", "RETURN", "LEFT", "RIGHT", "i", "x"}

\* key presses, all before the first fixed step
EventLook ==
    /\ steps = 0
    /\ \E sym \in LookKeys : KeyDown(sym)

FrameLook ==
    /\ steps < LookSteps
    /\ \E dy \in LookDeltas : BeginFrame(PHYS_DT, <<Look(NoInput, 0, dy), 0>>)

NextLook == EventLook \/ FrameLook \/ Step \/ EndFrame

SpecLook == Init /\ [][NextLook]_vars

\* C20: after every frame the pitch of the current state is within [-1.45, 1.45], for
\* any look deltas, sensitivity and invert flags, and so is the interpolated pitch
\* handed to the renderer.
C20_PitchBound ==
    /\ -PITCH_LIMIT <= state_curr.pitch /\ state_curr.pitch <= PITCH_LIMIT
    /\ -PITCH_LIMIT <= state_prev.pitch /\ state_prev.pitch <= PITCH_LIMIT
    /\ render_player.drawn
          => (-PITCH_LIMIT <= render_player.pitch /\ render_player.pitch <= PITCH_LIMIT)

\* C20 witness: with the vertical axis inverted back and a raised sensitivity, a frame
\* whose look delta would have carried the pitch past the limit, drawn at the limit
C20_Witness ==
    /\ pc = "frame" /\ render_player.drawn /\ menu_open = 0
    /\ invert_mouse_y = 0 /\ mouse_sensitivity > SENS_INIT
    /\ render_player.from.pitch = PITCH_LIMIT /\ render_player.pitch = PITCH_LIMIT
    /\ in.mouse_dy < 0
    /\ -1 * mouse_dy_smooth * mouse_sensitivity > PITCH_LIMIT

-----------------------------------------------------------------------------
(* load_map_json_like, generate_demo_map and the two places that load a map *)

MAP_DEFAULT_SIZE == 64

\* int tmpw = 128, tmph = 128
tmpw == 128
tmph == 128

\* [type, rot] of a cell entry; a bare number n is the entry [n, 0] (line 178)
Cell(type, rot) == [type |-> type, rot |-> rot]

RowOf(n, c) == [k \in 1..n |-> c]

\* The files of the runs explored, as the scanner of lines 120-216 reads them: whether
\* a "cells" key followed by '[' is found, the numbers after the "width" and "height"
\* keys that come before it (0 when absent), and the rows of the cells array.
\*   "n"  {"width": 4, "height": 4}
\*   "e"  {"width": 5, "cells": []}
\*   "k"  {"width": 4, "height": 4, "cells": [[0,0,0,0],[0,0,0,0],[0,0,0,[2,5]],
\*                                            [0,0,-1,257]]}
\*   "b"  {"width": 130, "height": 1, "cells": [[1, 1, ... 130 times ... , 1]]}
\* Every other path ("m") names no file.
FileN == [has_cells |-> FALSE, width |-> 4, height |-> 4, rows |-> <<>>]
FileE == [has_cells |-> TRUE, width |-> 5, height |-> 0, rows |-> <<>>]
FileK ==
    [has_cells |-> TRUE, width |-> 4, height |-> 4,
     rows |-> << RowOf(4, Cell(0, 0)), RowOf(4, Cell(0, 0)),
                 [RowOf(4, Cell(0, 0)) EXCEPT ![4] = Cell(2, 5)],
                 [RowOf(4, Cell(0, 0)) EXCEPT ![3] = Cell(-1, 0), ![4] = Cell(257, 0)] >>]

FileB == [has_cells |-> TRUE, width |-> 130, height |-> 1, rows |-> <<RowOf(130, Cell(1, 0))>>]

PathChars == {"n", "e", "k", "m"}

FileChars == {"n", "e", "k", "b"}

\* fopen(path, "rb") succeeds
file_exists(path) == Len(path) = 1 /\ path[1] \in FileChars

file_at(path) ==
    IF path[1] = "n" THEN FileN ELSE IF path[1] = "e" THEN FileE
    ELSE IF path[1] = "b" THEN FileB ELSE FileK

\* What the allocator and the heap can do in one load: malloc and calloc return a
\* block or NULL; tmp_rots is a zero-size allocation (calloc(tmpw * tmph, 0), line 134),
\* so it is NULL or a block of no bytes, and the writes of lines 161 and 178 and the
\* reads of line 206 land outside it: they fault (always so when it is NULL), or read
\* back what was written, or read what else lives there.
Allocs ==
    [buf : BOOLEAN, tmp_types : BOOLEAN, tmp_rots : {"fault", "kept", "garbage"},
     cells : BOOLEAN, rots : BOOLEAN]

\* the bytes read outside tmp_rots when they are not the ones written
GarbageRot == 255

\* lines 159-162, 177-180: the entry of row rz, column rx is stored in the temporaries
written(f, rz, rx) ==
    rz < Len(f.rows) /\ rz < tmph /\ rx < tmpw /\ rx < Len(f.rows[rz + 1])

\* some entry of the file is stored in the temporaries
writes_any(f) == \E rz \in 0..(Len(f.rows) - 1) : written(f, rz, 0)

\* calloc(nmemb, size): the bytes of the block
calloc_bytes(nmemb, size) == nmemb * size

\* lines 133-134
tmp_types_bytes == calloc_bytes(tmpw * tmph, 1)
tmp_rots_bytes == calloc_bytes(tmpw * tmph, 0)

\* The element indices at which a load uses tmp_types and tmp_rots (the same for both):
\* row * tmpw + col in the writes of lines 160-161 and 177-178, rz * tmpw + rx in the
\* reads of lines 205-206, which run when tmp_types is not NULL.
tmp_indices(path, a, w0, h0) ==
    IF ~file_exists(path) \/ ~a.buf \/ ~file_at(path).has_cells THEN {}
    ELSE LET f == file_at(path)
             w == IF f.width <= 0 THEN tmpw ELSE f.width
             h == IF f.height <= 0 THEN Len(f.rows) ELSE f.height
             writes == UNION { { rz * tmpw + rx : rx \in {c \in 0..(Len(f.rows[rz + 1]) - 1) :
                                                             written(f, rz, c)} } :
                               rz \in 0..(Len(f.rows) - 1) }
             reads == { k \in 0..(tmpw * fmin(h, tmph) - 1) : k % tmpw < w }
         IN IF a.tmp_types THEN writes \cup reads ELSE writes

\* (uint8_t) type
tmp_type_at(f, rz, rx) == IF written(f, rz, rx) THEN f.rows[rz + 1][rx + 1].type % 256 ELSE 0

\* (uint8_t) (rot & 3)
tmp_rot_at(f, rz, rx) == IF written(f, rz, rx) THEN f.rows[rz + 1][rx + 1].rot % 4 ELSE 0

\* lines 201-210: the cell copied into the grid
cell_type_at(f, rz, rx) == IF rz < tmph /\ rx < tmpw THEN tmp_type_at(f, rz, rx) ELSE 0

cell_rot_at(f, a, rz, rx) ==
    IF rz < tmph /\ rx < tmpw
    THEN IF a.tmp_rots = "garbage" THEN GarbageRot ELSE tmp_rot_at(f, rz, rx)
    ELSE 0

\* the result of a load that leaves map_w and map_h as they were (w0, h0) and the
\* pointers null
load_untouched(res, w0, h0) ==
    [res |-> res, crashed |-> FALSE, w |-> w0, h |-> h0, cells |-> <<>>, rots |-> <<>>,
     cells_null |-> TRUE, rots_null |-> TRUE]

load_crashed(w0, h0) == [load_untouched(0, w0, h0) EXCEPT !.crashed = TRUE]

\* lines 103-221, entered with map_cells = map_rots = NULL and map_w = w0, map_h = h0.
\* Returns the code, the grid variables as the call leaves them, and whether the
\* process faulted on the way.
load_map_json_like(path, a, w0, h0) ==
    IF ~file_exists(path) THEN load_untouched(-1, w0, h0)
    ELSE IF ~a.buf THEN load_untouched(-2, w0, h0)
    ELSE LET f == file_at(path) IN
    IF ~f.has_cells THEN load_untouched(-3, w0, h0)
    ELSE IF writes_any(f) /\ (~a.tmp_types \/ a.tmp_rots = "fault")
    THEN load_crashed(w0, h0)
    ELSE IF ~a.tmp_types THEN load_untouched(-3, w0, h0)
    ELSE LET w == IF f.width <= 0 THEN tmpw ELSE f.width
             h == IF f.height <= 0 THEN Len(f.rows) ELSE f.height
         IN
    IF h > 0 /\ (~a.cells \/ ~a.rots \/ a.tmp_rots = "fault")
    THEN [load_crashed(w0, h0) EXCEPT !.w = w, !.h = h]
    ELSE [res |-> IF a.cells THEN 0 ELSE -3,
          crashed |-> FALSE,
          w |-> w, h |-> h,
          cells |-> [k \in 0..(w * h - 1) |-> cell_type_at(f, k \div w, k % w)],
          rots |-> [k \in 0..(w * h - 1) |-> cell_rot_at(f, a, k \div w, k % w)],
          cells_null |-> ~a.cells, rots_null |-> ~a.rots]

\* lines 224-248
DemoW == 32
DemoH == 32
DemoCells ==
    [k \in 0..(DemoW * DemoH - 1) |->
        LET x == k % DemoW
            z == k \div DemoW
        IN IF k = (DemoH \div 2) * DemoW + (DemoW \div 2) THEN TILE_END
           ELSE IF z = 12 /\ x >= 10 /\ x < 18 THEN TILE_CUBE
           ELSE IF (z = 6 \/ z = 8) /\ (x = 6 \/ x = 8) THEN TILE_WEDGE
           ELSE IF z = 0 \/ x = 0 \/ z = DemoH - 1 \/ x = DemoW - 1 THEN TILE_CUBE
           ELSE TILE_EMPTY]
DemoRots ==
    [k \in 0..(DemoW * DemoH - 1) |->
        IF k = 6 * DemoW + 8 THEN 1
        ELSE IF k = 8 * DemoW + 6 THEN 2
        ELSE IF k = 8 * DemoW + 8 THEN 3
        ELSE 0]

\* the grid variables as one record
Grid == [w |-> map_w, h |-> map_h, cells |-> map_cells, rots |-> map_rots]

DemoGrid == [w |-> DemoW, h |-> DemoH, cells |-> DemoCells, rots |-> DemoRots]

\* lines 608-618, 660-668: main is started with the path arg (NoPath: no argument);
\* a failed load is replaced by the demo grid.  demo: the two allocations of
\* generate_demo_map succeed (lines 229-232 write through them unchecked)
Startup(arg, a, demo) ==
    LET r == load_map_json_like(arg, a, MAP_DEFAULT_SIZE, MAP_DEFAULT_SIZE)
        loaded == arg # NoPath /\ ~r.crashed /\ r.res = 0
        crashed == IF arg = NoPath THEN ~demo
                   ELSE r.crashed \/ (r.res # 0 /\ ~demo)
        g == IF crashed THEN [w |-> r.w, h |-> r.h, cells |-> <<>>, rots |-> <<>>]
             ELSE IF loaded THEN [w |-> r.w, h |-> r.h, cells |-> r.cells, rots |-> r.rots]
             ELSE [w |-> DemoW, h |-> DemoH, cells |-> DemoCells, rots |-> DemoRots]
    IN /\ map_w = g.w /\ map_h = g.h /\ map_cells = g.cells /\ map_rots = g.rots
       /\ pc = IF crashed THEN "crashed" ELSE "frame"
       /\ load_call =
             IF arg = NoPath THEN NoLoad
             ELSE [ran |-> TRUE, startup |-> TRUE, path |-> arg, res |-> r.res,
                   indices |-> tmp_indices(arg, a, MAP_DEFAULT_SIZE, MAP_DEFAULT_SIZE),
                   crashed |-> r.crashed, rots_null |-> loaded /\ r.rots_null,
                   before |-> [w |-> MAP_DEFAULT_SIZE, h |-> MAP_DEFAULT_SIZE,
                               cells |-> <<>>, rots |-> <<>>]]
       /\ state_curr = SpawnPlayer /\ state_prev = SpawnPlayer
       /\ in = NoInput /\ kb_r = 0 /\ level_complete = 0
       /\ accumulator = 0 /\ sub = 0 /\ steps = 0
       /\ last = NoCall /\ unsup = -1 /\ since_jump = FALSE
       /\ ref = SpawnPlayer
       /\ render_player = NoRender /\ frame_steps = 0
       /\ mouse_dx_smooth = 0 /\ mouse_dy_smooth = 0
       /\ mouse_sensitivity = SENS_INIT /\ invert_mouse_y = 1 /\ invert_mouse_x = 0
       /\ menu_open = 0 /\ menu_selected = 0 /\ menu_sub = 0 /\ load_path = NoPath
       /\ height_call = NoHeight /\ elapsed = 0

\* lines 781-814: RETURN in the load overlay with a path typed.  The old pointers are
\* set aside and the grid pointers nulled before the call; after a failed call the
\* pointers are put back.
LoadReturn ==
    /\ pc = "frame"
    /\ loads("RETURN", MenuState)
    /\ \E a \in Allocs :
         LET r == load_map_json_like(load_path, a, map_w, map_h) IN
         /\ load_call' = [ran |-> TRUE, startup |-> FALSE, path |-> load_path,
                          indices |-> tmp_indices(load_path, a, map_w, map_h),
                          res |-> r.res, crashed |-> r.crashed,
                          rots_null |-> IF ~r.crashed /\ r.res = 0 THEN r.rots_null
                                        ELSE load_call.rots_null,
                          before |-> Grid]
         /\ map_w' = r.w /\ map_h' = r.h
         /\ IF r.crashed
            THEN /\ pc' = "crashed"
                 /\ UNCHANGED <<map_cells, map_rots, state_curr, menu_sub, menu_open,
                                unsup, since_jump>>
            ELSE IF r.res = 0
            THEN /\ map_cells' = r.cells /\ map_rots' = r.rots
                 /\ state_curr' = [state_curr EXCEPT !.px = SPAWN_X, !.pz = SPAWN_Z,
                                      !.py = SPAWN_Y, !.vx = 0, !.vy = 0, !.vz = 0,
                                      !.grounded = 0, !.time_since_grounded = 0]
                 /\ menu_sub' = 0 /\ menu_open' = 0
                 /\ unsup' = -1 /\ since_jump' = FALSE
                 /\ pc' = pc
            ELSE /\ pc' = pc
                 /\ UNCHANGED <<map_cells, map_rots, state_curr, menu_sub, menu_open,
                                unsup, since_jump>>
    /\ UNCHANGED <<state_prev, in, kb_r, level_complete, accumulator, sub, steps, last,
                   ref, render_player, frame_steps, look_vars, menu_selected, load_path,
                   height_call, elapsed>>

-----------------------------------------------------------------------------
(* SpecLoad: the program is started with or without a map file, and maps are loaded
   from the menu while frames run *)

\* fixed steps of a run
LoadSteps == 1

\* argv[1]: none, the paths that can be typed, and the file with the wide row
StartArgs == {NoPath} \cup {<<ch>> : ch \in PathChars} \cup {<<"b">>}

LoadKeys == {"ESCAPE", "UP", "DOWN", "RETURN", "BACKSPACE"}

InitLoad == \E arg \in StartArgs : \E a \in Allocs : \E demo \in BOOLEAN : Startup(arg, a, demo)

EventLoad == \E sym \in LoadKeys : KeyDown(sym)

TypeLoad == \E ch \in PathChars : TextInput(ch)

FrameLoad ==
    /\ steps < LoadSteps
    /\ BeginFrame(PHYS_DT, <<NoInput, 0>>)

NextLoad == EventLoad \/ TypeLoad \/ LoadReturn \/ FrameLoad \/ Step \/ EndFrame

SpecLoad == InitLoad /\ [][NextLoad]_vars

\* the grid is well formed: both arrays have width * height entries (a map_rots left
\* NULL by malloc(0), load_call.rots_null, has none and belongs to a grid of no rows)
GridSized ==
    /\ DOMAIN map_cells = 0..(map_w * map_h - 1)
    /\ DOMAIN map_rots = 0..(map_w * map_h - 1)

\* the last load failed: load_map_json_like returned a code other than 0
LoadFailed == load_call.ran /\ ~load_call.crashed /\ load_call.res # 0

\* C19: a failed load from the menu leaves map_w, map_h, map_cells and map_rots as they
\* were before the attempt, a failed load at start-up is replaced by the demo grid
\* before the first step, and every physics step runs against a grid whose cells and
\* rotations both have width * height entries.
C19_FailedLoadKeepsGrid ==
    /\ (LoadFailed /\ ~load_call.startup) => Grid = load_call.before
    /\ (LoadFailed /\ load_call.startup /\ pc # "crashed") => Grid = DemoGrid
    /\ pc = "step" => GridSized

\* What a failed load does keep: the two arrays are the ones of before the attempt,
\* and so are the dimensions unless the file had a cells array (code -3 from line 219
\* after lines 195-196 ran); a failed load at start-up is replaced by the demo grid.
C19_FailedLoadKeepsArrays ==
    /\ (LoadFailed /\ ~load_call.startup)
          => /\ map_cells = load_call.before.cells /\ map_rots = load_call.before.rots
             /\ (map_w # load_call.before.w \/ map_h # load_call.before.h)
                   => (load_call.res = -3 /\ file_at(load_call.path).has_cells)
    /\ (LoadFailed /\ load_call.startup /\ pc # "crashed") => Grid = DemoGrid

\* a fixed step has run against a grid whose dimensions a failed load replaced
C19_Witness ==
    /\ LoadFailed /\ ~load_call.startup
    /\ last.ran /\ pc = "frame"
    /\ map_h # load_call.before.h
    /\ ~GridSized

-----------------------------------------------------------------------------
(* SpecPass: one resolve_collisions call for a player in the centre cell of a 3 x 3
   grid, for sampled neighbourhoods and player states *)

\* the tiles of the cells north (1,0), west (0,1), centre (1,1) and south (1,2); the
\* other five cells are empty
Neighbourhood(n, w, c, so) ==
    [k \in 0..8 |-> IF k = 1 THEN n ELSE IF k = 3 THEN w ELSE IF k = 4 THEN c
                    ELSE IF k = 7 THEN so ELSE TILE_EMPTY]

\* px and pz relative to the centre cell's minimum corner
PassX == { PLAYER_RADIUS - 2000, POS \div 4, POS \div 2 }
PassZ == { PLAYER_RADIUS - 1000, POS \div 2, POS - PLAYER_RADIUS + 3000 }
PassY == { -1000, 0, POS \div 4, POS - 1500, POS + EPSILON }

InitPass ==
    /\ map_w = 3 /\ map_h = 3
    /\ \E n \in {TILE_EMPTY, TILE_CUBE, TILE_WEDGE, TILE_END},
          w \in {TILE_EMPTY, TILE_CUBE, TILE_WEDGE},
          c \in {TILE_EMPTY, TILE_WEDGE},
          so \in {TILE_EMPTY, TILE_CUBE} : map_cells = Neighbourhood(n, w, c, so)
    /\ \E r \in {0, 3} : map_rots = [k \in 0..8 |-> r]
    /\ \E x \in PassX, y \in PassY, z \in PassZ, v \in {-1000, 0} :
          state_curr = [SpawnPlayer EXCEPT !.px = POS + x, !.py = y, !.pz = POS + z,
                           !.vx = -1000, !.vy = v, !.vz = 1000]
    /\ state_prev = state_curr
    /\ level_complete = 0
    /\ in = NoInput /\ kb_r = 0 /\ accumulator = 0 /\ pc = "frame" /\ sub = 0
    /\ steps = 0 /\ last = NoCall /\ unsup = -1 /\ since_jump = FALSE
    /\ ref = SpawnPlayer
    /\ render_player = NoRender /\ frame_steps = 0
    /\ mouse_dx_smooth = 0 /\ mouse_dy_smooth = 0
    /\ mouse_sensitivity = SENS_INIT /\ invert_mouse_y = 1 /\ invert_mouse_x = 0
    /\ menu_open = 0 /\ menu_selected = 0 /\ menu_sub = 0 /\ load_path = NoPath
    /\ load_call = NoLoad /\ height_call = NoHeight /\ elapsed = 0

\* lines 527-548: one collision pass
Pass ==
    /\ pc = "frame"
    /\ LET r == resolve_collisions(state_curr, level_complete)
       IN /\ state_curr' = r.p
          /\ level_complete' = r.lc
          /\ last' = [NoCall EXCEPT !.ran = TRUE, !.p0 = state_curr,
                         !.lc0 = level_complete, !.integ = state_curr, !.post = r.p,
                         !.lc = r.lc]
    /\ pc' = "resolved"
    /\ UNCHANGED <<map_w, map_h, map_cells, map_rots, state_prev, in, kb_r, accumulator,
                   sub, steps, unsup, since_jump, ref, render_player, frame_steps,
                   look_vars, menu_vars, call_vars>>

SpecPass == InitPass /\ [][Pass]_vars

\* the offsets <<ox, oz>> of the nine cells, rows outer and columns inner, and the
\* other way round
RowsOuter ==
    << <<-1, -1>>, <<0, -1>>, <<1, -1>>, <<-1, 0>>, <<0, 0>>, <<1, 0>>,
       <<-1, 1>>, <<0, 1>>, <<1, 1>> >>
ColumnsOuter ==
    << <<-1, -1>>, <<-1, 0>>, <<-1, 1>>, <<0, -1>>, <<0, 0>>, <<0, 1>>,
       <<1, -1>>, <<1, 0>>, <<1, 1>> >>

\* the resolver of the type of cell (mx, mz) applied to s = [p, lc]; nothing for an
\* empty cell or a cell outside the grid
Visit(s, mx, mz) ==
    IF mx < 0 \/ mz < 0 \/ mx >= map_w \/ mz >= map_h THEN s
    ELSE LET t == map_cells[mz * map_w + mx] IN
         IF t = TILE_CUBE THEN [s EXCEPT !.p = resolve_cube(s.p, mx, mz)]
         ELSE IF t = TILE_WEDGE
         THEN [s EXCEPT !.p = resolve_wedge(s.p, mx, mz, map_rots[mz * map_w + mx])]
         ELSE IF t = TILE_END /\ goal_overlap(s.p, mx, mz) THEN [s EXCEPT !.lc = 1]
         ELSE s

\* the cells around (cx, cz) visited in the given order from the i-th on, each on the
\* state left by the one before
RECURSIVE VisitFrom(_, _, _, _, _)
VisitFrom(s, cx, cz, order, i) ==
    IF i > Len(order) THEN s
    ELSE VisitFrom(Visit(s, cx + order[i][1], cz + order[i][2]), cx, cz, order, i + 1)

\* a pass over the cells around the cell of p in the given order, then the floor clamp
PassInOrder(p, lc, order) ==
    LET s == VisitFrom([p |-> p, lc |-> lc], p.px \div POS, p.pz \div POS, order, 1)
    IN [s EXCEPT !.p = IF s.p.py < 0
                       THEN [s.p EXCEPT !.py = 0, !.vy = 0, !.grounded = 1]
                       ELSE s.p]

\* C22: a collision pass visits the 3 x 3 cells around the cell that holds the player's
\* position at the start of the pass, rows (z offset -1..1) outer and columns (x offset
\* -1..1) inner, applying the resolver of each cell's type to the state left by the cell
\* visited before; the floor clamp runs once, after the nine cells.
C22_PassOrder ==
    (pc = "resolved")
        => LET r == PassInOrder(last.p0, last.lc0, RowsOuter)
           IN state_curr = r.p /\ level_complete = r.lc

\* C22 witness: a pass whose outcome depends on the order: the wedge to the north has
\* lifted the foot before the cube to the west is resolved, and with the columns outer
\* the player would have ended elsewhere
C22_Witness ==
    /\ pc = "resolved"
    /\ map_cells[1] = TILE_WEDGE /\ map_cells[3] = TILE_CUBE
    /\ state_curr # last.p0
    /\ PassInOrder(last.p0, last.lc0, ColumnsOuter).p # state_curr

-----------------------------------------------------------------------------
(* SpecVel: from rest on the floor of the course, the keys change every VelHold fixed
   steps *)

\* fixed steps of a run, and fixed steps for which the keys are held
VelSteps == 35
VelHold == 7

\* strafe right sprinting, strafe left, nothing, forward and right sprinting with the
\* jump key down
VelKeys == { <<Key(0, 1, 0, 1), 0>>, <<Key(0, -1, 0, 0), 0>>, <<NoInput, 0>>,
             <<Key(1, 1, 1, 1), 0>> }

\* the player has fallen from the spawn point to the floor and stands there
Landed == [SpawnPlayer EXCEPT !.py = 0, !.grounded = 1]

InitVel ==
    /\ map_w = CourseW /\ map_h = CourseH
    /\ map_cells = CourseCells /\ map_rots = CourseRots
    /\ state_curr = Landed /\ state_prev = Landed
    /\ in = NoInput /\ kb_r = 0 /\ level_complete = 0
    /\ accumulator = 0 /\ pc = "frame" /\ sub = 0 /\ steps = 0
    /\ last = NoCall /\ unsup = 0 /\ since_jump = FALSE
    /\ ref = SpawnPlayer
    /\ render_player = NoRender /\ frame_steps = 0
    /\ mouse_dx_smooth = 0 /\ mouse_dy_smooth = 0
    /\ mouse_sensitivity = SENS_INIT /\ invert_mouse_y = 1 /\ invert_mouse_x = 0
    /\ menu_open = 0 /\ menu_selected = 0 /\ menu_sub = 0 /\ load_path = NoPath
    /\ load_call = NoLoad /\ height_call = NoHeight /\ elapsed = 0

FrameVel ==
    /\ steps < VelSteps
    /\ \E k \in VelKeys :
          /\ steps % VelHold # 0 => k = <<in, kb_r>>
          /\ BeginFrame(PHYS_DT, k)

NextVel == FrameVel \/ Step \/ EndFrame

SpecVel == InitVel /\ [][NextVel]_vars

\* 1.5 * MAX_WALK_SPEED, in velocity units
SpeedBound == (3 * MAX_WALK_SPEED * VEL) \div 2

Abs(v) == IF v < 0 THEN -v ELSE v

\* x lies between a and b, ends included
Between(a, x, b) == (a <= x /\ x <= b) \/ (b <= x /\ x <= a)

\* the target velocity of a physics_step call on p with Input i, yaw being 0: the
\* strafe and forward parts of the normalised wish direction times the target speed
TargetSpeed2(p, i) ==
    IF p.grounded = 1 /\ i.sprint = 1 THEN 3 * MAX_WALK_SPEED ELSE 2 * MAX_WALK_SPEED
WishPart(a, b) == IF a = 0 THEN 0 ELSE IF b = 0 THEN a * 10000 ELSE a * 7071
TargetVx(p, i) == TruncDiv(WishPart(i.move_strafe, i.move_fwd) * TargetSpeed2(p, i) * VEL, 20000)
TargetVz(p, i) == TruncDiv(WishPart(i.move_fwd, i.move_strafe) * TargetSpeed2(p, i) * VEL, 20000)

\* C25: starting from zero velocity, in every reachable state |vx| and |vz| are at most
\* 1.5 * MAX_WALK_SPEED; in every physics step the acceleration and friction leave each
\* horizontal velocity component between its old value and its target, and the
\* collision pass does not increase its magnitude.
C25_HorizontalVelocityBound ==
    /\ Abs(state_curr.vx) <= SpeedBound /\ Abs(state_curr.vz) <= SpeedBound
    /\ last.ran
          => /\ Between(last.p0.vx, last.integ.vx, TargetVx(last.p0, last.inp))
             /\ Between(last.p0.vz, last.integ.vz, TargetVz(last.p0, last.inp))
             /\ Between(0, last.post.vx, last.integ.vx)
             /\ Between(0, last.post.vz, last.integ.vz)

\* C25 witness: the bound is attained by a sprinting player on the ground
C25_Witness ==
    /\ last.ran /\ state_curr.vx = SpeedBound /\ state_curr.grounded = 1

\* a step in which the cube damped vx
C25_WitnessDamped ==
    /\ last.ran /\ last.integ.vx > 0 /\ 10 * last.post.vx = 3 * last.integ.vx

\* the state InitVel starts from is reached from the spawn point
LandedAtSpawn == state_curr = Landed /\ pc = "frame"

-----------------------------------------------------------------------------
(* The temporaries of the loader, under SpecLoad *)

\* C26: while the cells section is parsed and copied, every write to and read from
\* tmp_types and tmp_rots is at an index inside the memory allocated for that buffer
\* (element count times element size, the elements being one byte wide).
C26_LoaderBufferSafety ==
    load_call.ran
        => \A k \in load_call.indices :
              k >= 0 /\ k < tmp_types_bytes /\ k < tmp_rots_bytes

\* The part that holds: the indices used are inside tmp_types, whose calloc asks for
\* tmpw * tmph elements of one byte; the tests of lines 159, 176 and 204 keep the
\* 129th and 130th column of a wide row out.
C26_TypesBufferSafe ==
    load_call.ran
        => \A k \in load_call.indices : k >= 0 /\ k < tmp_types_bytes

\* a row wider than the temporaries was loaded at start-up, its last stored column
\* was used, and a fixed step has run on the grid
C26_Witness ==
    /\ load_call.ran /\ load_call.startup /\ load_call.path = <<"b">>
    /\ load_call.res = 0 /\ map_w > tmpw /\ steps > 0
    /\ (tmpw - 1) \in load_call.indices

-----------------------------------------------------------------------------
(* The cube resolver in the arithmetic of the build: IEEE 754 binary64 *)

\* The specifications above compute positions exactly, on a grid of 1/576000.  The
\* program computes them as doubles, and each + and - of lines 475-502 rounds its
\* result to 53 significant bits, to nearest, ties to even.  Here a double is a
\* record [neg, hi, lo] that stands for (-1)^neg * (hi * LIMB + lo) units, one unit
\* being 2^-54 world units in this section, so that every double between 2^-54 and
\* 16 of magnitude that is a multiple of the unit is such a record and the sums
\* and differences of two of them are computed without error before they are rounded.
LIMB == 2^29

DZero == [neg |-> FALSE, hi |-> 0, lo |-> 0]

MagLess(a, b) == a.hi < b.hi \/ (a.hi = b.hi /\ a.lo < b.lo)

MagAdd(a, b) ==
    LET l == a.lo + b.lo
    IN [hi |-> a.hi + b.hi + (l \div LIMB), lo |-> l % LIMB]

\* for b not greater than a in magnitude
MagSub(a, b) ==
    LET l == a.lo - b.lo
    IN IF l >= 0 THEN [hi |-> a.hi - b.hi, lo |-> l]
       ELSE [hi |-> a.hi - b.hi - 1, lo |-> l + LIMB]

Signed(n, m) == IF m.hi = 0 /\ m.lo = 0 THEN DZero ELSE [neg |-> n, hi |-> m.hi, lo |-> m.lo]

DNeg(a) == Signed(~a.neg, a)

\* a + b and a - b as real numbers
ExactAdd(a, b) ==
    IF a.neg = b.neg THEN Signed(a.neg, MagAdd(a, b))
    ELSE IF MagLess(a, b) THEN Signed(b.neg, MagSub(b, a))
    ELSE Signed(a.neg, MagSub(a, b))
ExactSub(a, b) == ExactAdd(a, DNeg(b))

\* a < b and a <= b, which C computes without rounding
DLess(a, b) ==
    IF a.neg # b.neg THEN a.neg
    ELSE IF a.neg THEN MagLess(b, a) ELSE MagLess(a, b)
DLeq(a, b) == ~DLess(b, a)

\* the spacing of the doubles around a, in units: 1 below 2^53 units, doubling with
\* each power of two above
Ulp(a) ==
    IF a.hi < 2^24 THEN 1 ELSE IF a.hi < 2^25 THEN 2 ELSE IF a.hi < 2^26 THEN 4
    ELSE IF a.hi < 2^27 THEN 8 ELSE IF a.hi < 2^28 THEN 16 ELSE 32

\* round to nearest, ties to even
DRound(a) ==
    LET g == Ulp(a)
        r == a.lo % g
        down == [hi |-> a.hi, lo |-> a.lo - r]
        up == 2 * r > g \/ (2 * r = g /\ ((a.lo - r) \div g) % 2 = 1)
    IN IF up THEN Signed(a.neg, MagAdd(down, [hi |-> 0, lo |-> g]))
       ELSE Signed(a.neg, down)

\* the C expressions a + b and a - b on doubles
fadd(a, b) == DRound(ExactAdd(a, b))
fsub(a, b) == DRound(ExactSub(a, b))

dmin(a, b) == IF DLess(b, a) THEN b ELSE a

\* the double of a small whole number, in units of 2^-54
WholeD(n) == Signed(n < 0, [hi |-> (IF n < 0 THEN -n ELSE n) * 2^25, lo |-> 0])

\* the doubles 0.28 (0x3FD1EB851EB851EC) and 1.8 (0x3FFCCCCCCCCCCCCD) of lines 20-21
PLAYER_RADIUS_D == [neg |-> FALSE, hi |-> 9395240, lo |-> 515396076]
PLAYER_HEIGHT_D == [neg |-> FALSE, hi |-> 60397977, lo |-> 322122548]

\* cell_max_y + 0.001 of line 486 and cell_min_y - PLAYER_HEIGHT - 0.001 of line 490
\* for the cube, the doubles 1.0009999999999999 and -1.8009999999999999 (0.001 itself
\* is not a multiple of the unit; the two rounded results are)
CUBE_TOP_D == [neg |-> FALSE, hi |-> 33587986, lo |-> 231928232]
CUBE_BELOW_D == [neg |-> TRUE, hi |-> 60431532, lo |-> 17179868]

\* resolve_cube with p.px, p.py and p.pz doubles; the velocities stay on their grid
resolve_cube_ieee(p, cx, cz) ==
    LET cell_min_x == WholeD(cx)
        cell_max_x == WholeD(cx + 1)
        cell_min_y == WholeD(0)
        cell_max_y == WholeD(1)
        cell_min_z == WholeD(cz)
        cell_max_z == WholeD(cz + 1)
        pmin_x == fsub(p.px, PLAYER_RADIUS_D)
        pmax_x == fadd(p.px, PLAYER_RADIUS_D)
        pmin_y == p.py
        pmax_y == fadd(p.py, PLAYER_HEIGHT_D)
        pmin_z == fsub(p.pz, PLAYER_RADIUS_D)
        pmax_z == fadd(p.pz, PLAYER_RADIUS_D)
        pen_x == dmin(fsub(pmax_x, cell_min_x), fsub(cell_max_x, pmin_x))
        pen_y == dmin(fsub(pmax_y, cell_min_y), fsub(cell_max_y, pmin_y))
        pen_z == dmin(fsub(pmax_z, cell_min_z), fsub(cell_max_z, pmin_z))
    IN
    IF DLeq(pmax_x, cell_min_x) \/ DLeq(cell_max_x, pmin_x)
       \/ DLeq(pmax_y, cell_min_y) \/ DLeq(cell_max_y, pmin_y)
       \/ DLeq(pmax_z, cell_min_z) \/ DLeq(cell_max_z, pmin_z)
    THEN p
    ELSE IF DLeq(pen_y, pen_x) /\ DLeq(pen_y, pen_z)
    THEN \* the halving of both centres is exact: compare the sums
         IF DLess(fadd(cell_min_y, cell_max_y), fadd(pmin_y, pmax_y))
         THEN [p EXCEPT !.py = CUBE_TOP_D, !.vy = 0, !.grounded = 1]
         ELSE [p EXCEPT !.py = CUBE_BELOW_D,
                        !.vy = IF p.vy > 0 THEN 0 ELSE p.vy]
    ELSE IF DLeq(pen_x, pen_z)
    THEN [p EXCEPT !.px = IF DLess(fadd(p.px, p.px), fadd(cell_min_x, cell_max_x))
                          THEN fsub(p.px, pen_x) ELSE fadd(p.px, pen_x),
                   !.vx = Damp(p.vx)]
    ELSE [p EXCEPT !.pz = IF DLess(fadd(p.pz, p.pz), fadd(cell_min_z, cell_max_z))
                          THEN fsub(p.pz, pen_z) ELSE fadd(p.pz, pen_z),
                   !.vz = Damp(p.vz)]

\* Sampled states.  A grid of 5 x 3 cells holds one cube, at column 1 or 3 of row 1.
\* px is the cube's minimum corner plus an offset, pz likewise: eighths and
\* sixteenths of a cell on both sides of the cube, and five neighbouring doubles
\* around 0.50234 (px = 0x1.c04cad57bc7f7p+1 for the cube of column 3 is the middle one).
CubeAt(cx) == [k \in 0..14 |-> IF k = 5 + cx THEN TILE_CUBE ELSE TILE_EMPTY]

Eighths(n) == Signed(n < 0, [hi |-> (IF n < 0 THEN -n ELSE n) * 2^22, lo |-> 0])

OffsetX ==
    { Eighths(n) : n \in {-2, -1, 2, 4, 5, 6, 7, 9, 10} }
        \cup { [neg |-> FALSE, hi |-> 16855733, lo |-> 199114680 + 8 * k] : k \in -2..2 }

\* half a cell, and 0.03 inside the far face
OffsetZ == { Eighths(4), ExactAdd(Eighths(10), [neg |-> FALSE, hi |-> 1, lo |-> 0]) }

\* the foot on the floor, half way up, 1/16 below the cube's top, and the head 1/16
\* above the cube's underside
HeightY ==
    { DZero, Eighths(4), [neg |-> FALSE, hi |-> 15 * 2^21, lo |-> 0],
      ExactSub([neg |-> FALSE, hi |-> 2^21, lo |-> 0], PLAYER_HEIGHT_D) }

InitIeee ==
    /\ map_w = 5 /\ map_h = 3
    /\ \E cx \in {1, 3} :
          /\ map_cells = CubeAt(cx)
          /\ \E x \in OffsetX, y \in HeightY, z \in OffsetZ :
                state_curr = [SpawnPlayer EXCEPT !.px = ExactAdd(WholeD(cx), x), !.py = y,
                                 !.pz = ExactAdd(WholeD(1), z),
                                 !.vx = -3 * VEL, !.vy = -VEL, !.vz = 2 * VEL]
    /\ map_rots = [k \in 0..14 |-> 0]
    /\ state_prev = state_curr
    /\ level_complete = 0
    /\ in = NoInput /\ kb_r = 0 /\ accumulator = 0 /\ pc = "frame" /\ sub = 0
    /\ steps = 0 /\ last = NoCall /\ unsup = -1 /\ since_jump = FALSE
    /\ ref = SpawnPlayer
    /\ render_player = NoRender /\ frame_steps = 0
    /\ mouse_dx_smooth = 0 /\ mouse_dy_smooth = 0
    /\ mouse_sensitivity = SENS_INIT /\ invert_mouse_y = 1 /\ invert_mouse_x = 0
    /\ menu_open = 0 /\ menu_selected = 0 /\ menu_sub = 0 /\ load_path = NoPath
    /\ load_call = NoLoad /\ height_call = NoHeight /\ elapsed = 0

\* the column of the cube in row 1
CubeColumn == CHOOSE cx \in 0..4 : map_cells[5 + cx] = TILE_CUBE

\* one call of resolve_cube for the cube; a second call, as the next collision pass
\* makes it, when the first has run
ResolveIeee ==
    /\ pc \in {"frame", "resolved"}
    /\ LET r == resolve_cube_ieee(state_curr, CubeColumn, 1)
       IN /\ state_curr' = r
          /\ last' = [NoCall EXCEPT !.ran = TRUE, !.p0 = state_curr, !.integ = state_curr,
                         !.post = r]
    /\ pc' = IF pc = "frame" THEN "resolved" ELSE "again"
    /\ UNCHANGED <<map_w, map_h, map_cells, map_rots, state_prev, in, kb_r,
                   level_complete, accumulator, sub, steps, unsup, since_jump, ref,
                   render_player, frame_steps, look_vars, menu_vars, call_vars>>

SpecIeee == InitIeee /\ [][ResolveIeee]_vars

\* the box of p and the cube of column cx, row 1, as sets of real points: the box is
\* px -+ 0.28, py .. py + 1.8, pz -+ 0.28 with the doubles 0.28 and 1.8 and no rounding
BoxApartExact(p, cx) ==
    \/ DLeq(ExactAdd(p.px, PLAYER_RADIUS_D), WholeD(cx))
    \/ DLeq(WholeD(cx + 1), ExactSub(p.px, PLAYER_RADIUS_D))
    \/ DLeq(ExactAdd(p.py, PLAYER_HEIGHT_D), WholeD(0))
    \/ DLeq(WholeD(1), p.py)
    \/ DLeq(ExactAdd(p.pz, PLAYER_RADIUS_D), WholeD(1))
    \/ DLeq(WholeD(2), ExactSub(p.pz, PLAYER_RADIUS_D))

C24_SecondCallIdle == pc = "again" => state_curr = last.p0

\* What the rounding leaves: X or Z is at most one spacing of the doubles short of the
\* face, so the overlap left is below 2^-51 world units (8 units) on the axis moved.
Overlap(p, cx) ==
    dmin(dmin(ExactSub(ExactAdd(p.px, PLAYER_RADIUS_D), WholeD(cx)),
              ExactSub(WholeD(cx + 1), ExactSub(p.px, PLAYER_RADIUS_D))),
         dmin(ExactSub(ExactAdd(p.pz, PLAYER_RADIUS_D), WholeD(1)),
              ExactSub(WholeD(2), ExactSub(p.pz, PLAYER_RADIUS_D))))

C24_OverlapWithinRounding ==
    (pc = "resolved" /\ ~BoxApartExact(last.p0, CubeColumn))
        => \/ BoxApartExact(state_curr, CubeColumn)
           \/ DLess(Overlap(state_curr, CubeColumn), [neg |-> FALSE, hi |-> 0, lo |-> 16])

-----------------------------------------------------------------------------
(* SpecTime: the accumulator in the arithmetic of the build *)

\* accumulator, PHYS_DT and frame_dt are doubles (lines 681-691), and the += of line
\* 691 and the -= of line 856 round their results.  In this specification they are the
\* records of the section above, one unit being 2^-59 s, the spacing of the doubles
\* around PHYS_DT; elapsed is [total, frames], the sum of the frame deltas as a real
\* number and the number of frames begun.  The player is simulated on the grid of the
\* other specifications, no key held.

\* frames begun in a run
TimeFrames == 3

\* 1.0 / 120.0 = 0x3F81111111111111, a little below 1/120 s
PHYS_DT_D == [neg |-> FALSE, hi |-> 8947848, lo |-> 286331153]

\* the 0.0 and 0.25 of line 689
MAX_FRAME_DT_D == [neg |-> FALSE, hi |-> 2^28, lo |-> 0]

clampd_ieee(v, a, b) == IF DLess(v, a) THEN a ELSE IF DLess(b, v) THEN b ELSE v

frame_dt_ieee(raw_dt) == clampd_ieee(raw_dt, DZero, MAX_FRAME_DT_D)

\* The values cur - prev_time takes: the clock stepped back by 2^-8 s, 2^-8 s, 0.016 s,
\* ten units less than PHYS_DT, 2 * PHYS_DT (the double 1.0 / 60.0), 0.1 s and 0.3 s
TimeDeltas ==
    { [neg |-> TRUE, hi |-> 2^22, lo |-> 0],
      [neg |-> FALSE, hi |-> 2^22, lo |-> 0],
      [neg |-> FALSE, hi |-> 17179869, lo |-> 98784248],
      [neg |-> FALSE, hi |-> 8947848, lo |-> 286331143],
      [neg |-> FALSE, hi |-> 17895697, lo |-> 35791394],
      [neg |-> FALSE, hi |-> 107374182, lo |-> 214748368],
      [neg |-> FALSE, hi |-> 322122547, lo |-> 107374176] }

InitTime ==
    /\ map_w = CourseW /\ map_h = CourseH
    /\ map_cells = CourseCells /\ map_rots = CourseRots
    /\ state_curr = SpawnPlayer /\ state_prev = SpawnPlayer
    /\ in = NoInput /\ kb_r = 0 /\ level_complete = 0
    /\ accumulator = DZero /\ pc = "frame" /\ sub = 0 /\ steps = 0
    /\ last = NoCall /\ unsup = -1 /\ since_jump = FALSE
    /\ ref = SpawnPlayer
    /\ render_player = NoRender /\ frame_steps = 0
    /\ mouse_dx_smooth = 0 /\ mouse_dy_smooth = 0
    /\ mouse_sensitivity = SENS_INIT /\ invert_mouse_y = 1 /\ invert_mouse_x = 0
    /\ menu_open = 0 /\ menu_selected = 0 /\ menu_sub = 0 /\ load_path = NoPath
    /\ load_call = NoLoad /\ height_call = NoHeight
    /\ elapsed = [total |-> DZero, frames |-> 0]

\* lines 688-852 with no event and no key: the delta is clamped and added
FrameTime ==
    /\ pc = "frame"
    /\ elapsed.frames < TimeFrames
    /\ \E raw_dt \in TimeDeltas :
          /\ accumulator' = fadd(accumulator, frame_dt_ieee(raw_dt))
          /\ elapsed' = [total |-> ExactAdd(elapsed.total, frame_dt_ieee(raw_dt)),
                         frames |-> elapsed.frames + 1]
    /\ state_prev' = state_curr
    /\ frame_steps' = 0
    /\ pc' = "step"
    /\ UNCHANGED <<map_w, map_h, map_cells, map_rots, state_curr, in, kb_r,
                   level_complete, sub, steps, last, unsup, since_jump, ref,
                   render_player, look_vars, menu_vars, load_call, height_call>>

\* mutant of time_loop_done: the stepping loop runs at most one fixed step per frame
time_loop_done_after_one == frame_steps >= 1 \/ DLess(accumulator, PHYS_DT_D)

\* line 854: the condition of the stepping loop fails
time_loop_done == DLess(accumulator, PHYS_DT_D)

\* lines 855-856: one pass of the stepping loop, two calls of physics_step with
\* PHYS_DT / substeps and the subtraction
StepTime ==
    /\ pc = "step"
    /\ ~time_loop_done
    /\ LET r1 == physics_step(state_curr, in, step_dt, level_complete)
           r2 == physics_step(r1.p, in, step_dt, r1.lc)
       IN /\ state_curr' = r2.p
          /\ level_complete' = r2.lc
    /\ accumulator' = fsub(accumulator, PHYS_DT_D)
    /\ steps' = steps + 1
    /\ frame_steps' = frame_steps + 1
    /\ UNCHANGED <<map_w, map_h, map_cells, map_rots, state_prev, in, kb_r, pc, sub,
                   last, unsup, since_jump, ref, render_player, look_vars, menu_vars,
                   call_vars>>

\* line 854: the loop is left.  What is drawn (lines 858-868) is not followed here.
EndFrameTime ==
    /\ pc = "step"
    /\ time_loop_done
    /\ pc' = "frame"
    /\ UNCHANGED <<map_w, map_h, map_cells, map_rots, state_prev, state_curr, in, kb_r,
                   level_complete, accumulator, sub, steps, last, unsup, since_jump, ref,
                   render_player, frame_steps, look_vars, menu_vars, call_vars>>

NextTime == FrameTime \/ StepTime \/ EndFrameTime

SpecTime == InitTime /\ [][NextTime]_vars

\* n * a as a real number, for a not negative and n below 200: the low limb is
\* multiplied in two halves of 15 and 14 bits
TimesD(n, a) ==
    LET t0 == n * (a.lo % 2^15)
        t1 == n * (a.lo \div 2^15) + (t0 \div 2^15)
    IN Signed(FALSE, [hi |-> n * a.hi + (t1 \div 2^14),
                      lo |-> (t1 % 2^14) * 2^15 + (t0 % 2^15)])

\* steps * PHYS_DT + accumulator, as a real number
Simulated == ExactAdd(TimesD(steps, PHYS_DT_D), accumulator)

\* C23: simulated time is conserved: for frames whose deltas are each between 0 and
\* 0.25 s, after every frame the number of fixed steps executed times PHYS_DT plus
\* the accumulator equals the sum of the deltas, that is, the number of steps is
\* floor(total elapsed / PHYS_DT).
C23_TimeConserved ==
    pc = "frame"
        => /\ Simulated = elapsed.total
           /\ DLeq(TimesD(steps, PHYS_DT_D), elapsed.total)
           /\ DLess(elapsed.total, TimesD(steps + 1, PHYS_DT_D))

\* the second half of C23 alone: the steps executed are floor(total / PHYS_DT)
C23_StepCountIsFloor ==
    pc = "frame"
        => /\ DLeq(TimesD(steps, PHYS_DT_D), elapsed.total)
           /\ DLess(elapsed.total, TimesD(steps + 1, PHYS_DT_D))

\* |a - b| in units, 2^29 standing for every distance of 2^29 units or more
UnitsApart(a, b) ==
    LET d == ExactSub(a, b)
    IN IF d.hi > 0 THEN LIMB ELSE d.lo

\* C23 as the doubles keep it: after every frame the accumulator is in [0, PHYS_DT),
\* and steps * PHYS_DT + accumulator differs from the sum of the deltas by the rounding
\* of the operations made, at most 2^-55 s (16 units) for the addition of each frame
\* and 2^-56 s (8 units) for the subtraction of each step.
C23_TimeWithinRounding ==
    pc = "frame"
        => /\ DLeq(DZero, accumulator) /\ DLess(accumulator, PHYS_DT_D)
           /\ UnitsApart(Simulated, elapsed.total) <= 16 * elapsed.frames + 8 * steps

\* C23 witness: frames have run fixed steps and rounding has moved the simulated time
\* off the sum of the deltas
C23_Witness ==
    /\ pc = "frame" /\ elapsed.frames = TimeFrames /\ steps > 12
    /\ Simulated # elapsed.total
    /\ DLess(DZero, accumulator)

\* the steps executed are one more than floor(total / PHYS_DT)
C23_WitnessStepEarly ==
    /\ pc = "frame" /\ steps > 0
    /\ DLess(elapsed.total, TimesD(steps, PHYS_DT_D))

-----------------------------------------------------------------------------
(* Time on the grid of ticks, under SpecDet *)

\* C23 in exact arithmetic: with PHYS_DT and the deltas whole numbers of ticks,
\* steps * PHYS_DT + accumulator is the sum of the deltas, in every state between
\* two passes of the stepping loop.
C23_TicksConserved ==
    sub = 0 => steps * PHYS_DT + accumulator = elapsed

====
